---------------------------- MODULE Spec2Model ----------------------------
(***************************************************************************)
(* Verification model of rommer-gba: the relational store ingestor, the    *)
(* temporal-safe dataset sampler, the training-sample builders, the event  *)
(* aggregator, the frequency normaliser and the natural-language query     *)
(* engine.  Each component is a state machine of its own over its own      *)
(* variables; a component's specification keeps the other components'      *)
(* variables at their idle values.                                         *)
(***************************************************************************)
EXTENDS Integers, Sequences, FiniteSets, TLC

VARIABLES
    \* --- relational store (src/db/ingest_training_data.py) ---
    sessions,          \* table sessions: set of session_uuid (PRIMARY KEY)
    frame_sets,        \* table frame_sets: rows in rowid order
    memory_changes,    \* table memory_changes: rows in rowid order
    annotations,       \* table annotations: rows in rowid order
    supplied,          \* history: what the latest call of each insert method supplied, per (session, frame set)
    \* --- create_temporal_split (src/ml/cnn_context_classifier.py) ---
    split_frames,      \* frame numbers of the frame_dirs argument
    split_requested,   \* min_gap of the outermost call
    split_min_gap,     \* min_gap of the call in progress
    split_pc,          \* "call" | "done" | "raised"
    split_train,       \* frame numbers of the returned train_dirs
    split_test,        \* frame numbers of the returned test_dirs
    split_log,         \* the gap-reduction messages printed, as <<from, to>>
    \* --- downsample_sequences (src/ml/cnn_context_classifier.py) ---
    ds_labels,         \* load_annotations(frame_dir) of each frame_dirs item, "None" when absent
    ds_pc,             \* "call" | "done"
    ds_dirs,           \* downsampled_dirs, as 1-based positions in frame_dirs
    ds_contexts,       \* downsampled_contexts
    \* --- windowed / bundled training samples (src/scripts/prepare_*_training_data.py) ---
    win_frames,        \* database sampler: the session's frames rows in frame_number order, each with
                       \*   its annotations row (if any) and its memory_changes rows
    win_size,          \* window_size
    bundle_frames,     \* file bundler: load_frame_data(), frame number -> frame (or absent)
    sample_pc,         \* "db" | "files" | "done"
    training_samples,  \* the samples produced
    \* --- event aggregator (src/scripts/combine_event_data.py) ---
    agg_dirs,          \* session directory: frame_set_id -> its directory (event.json, <id>.png) or none
    agg_snapshots,     \* snapshots directory: the frame_set_ids that have a <id>.png
    agg_log,           \* the CSV rows given to the latest pass
    agg_status,        \* "idle" | "done" | "raised": how the latest pass ended
    agg_printed,       \* what the latest pass printed
    agg_metadata,      \* session_metadata.json, if written
    \* --- normalize_frequencies (src/scripts/prepare_database_training_data.py) ---
    norm_freqs,        \* memory_changes.freq of the session's rows, in id order
    norm_method,       \* freq_method
    norm_pc,           \* "call" | "done"
    norm_values,       \* memory_changes.freq_normalized of the same rows
    \* --- natural-language query engine (flask-rest/memory_agent.py) ---
    nlq_query,         \* the question, as its words (joined by single spaces)
    nlq_pc,            \* "call" | "done"
    nlq_analysis,      \* the analysis returned by parse_natural_language_query, if any
    nlq_db,            \* the database at db_path: an error every statement meets, or its joined rows
    nlq_result,        \* the QueryResult returned by process_natural_language_query, if any
    \* --- process_directory (src/db/ingest_training_data.py) ---
    proc_dir,          \* the session directory: its numbered directories in iterdir() order
    proc_pc,           \* position: directory index i, step, and k rows inserted by the INSERT loop
    proc_status,       \* "idle" | "running" | "done" | "raised" | "stopped"
    proc_txn,          \* the open transaction's view of memory_changes, if one is open
    proc_old,          \* history: the store when the run began
    \* --- load_data_from_directory (src/scripts/prepare_database_training_data.py) ---
    load_dir,          \* the session directory: frame number -> its numbered directory
    load_db,           \* the training database: its tables and AUTOINCREMENT counters
    load_names,        \* history: the session_name of every load so far
    \* --- annotation collaborator (src/web_app/routes/annotate.py) ---
    ann_files,         \* frame_set_id -> the annotations.json of its directory, if any
    ann_written        \* history: frame_set_id -> what the collaborator wrote last, if anything

ingestVars == <<sessions, frame_sets, memory_changes, annotations, supplied>>

splitVars == <<split_frames, split_requested, split_min_gap, split_pc, split_train, split_test, split_log>>

downVars == <<ds_labels, ds_pc, ds_dirs, ds_contexts>>

sampleVars == <<win_frames, win_size, bundle_frames, sample_pc, training_samples>>

aggVars == <<agg_dirs, agg_snapshots, agg_log, agg_status, agg_printed, agg_metadata>>

normVars == <<norm_freqs, norm_method, norm_pc, norm_values>>

nlqVars == <<nlq_query, nlq_pc, nlq_analysis, nlq_db, nlq_result>>

procVars == <<proc_dir, proc_pc, proc_status, proc_txn, proc_old>>

loadVars == <<load_dir, load_db, load_names>>

annotVars == <<ann_files, ann_written>>

vars == <<ingestVars, splitVars, downVars, sampleVars, aggVars, normVars, nlqVars, procVars, loadVars, annotVars>>

(***************************************************************************)
(* Generic helpers                                                         *)
(***************************************************************************)
Min(a, b) == IF a <= b THEN a ELSE b
Max(a, b) == IF a >= b THEN a ELSE b
Abs(a) == IF a < 0 THEN -a ELSE a

\* All sequences over S of length 0..n
SeqsUpTo(S, n) == UNION {[1..k -> S] : k \in 0..n}

Range(s) == {s[i] : i \in DOMAIN s}

(***************************************************************************)
(* A.  Relational store: TrainingDataIngestor                              *)
(***************************************************************************)
MaxChangesPerSet == 2          \* longest memory_changes list of one event.json

SessionUuids == {"s1"}
FrameSetIds == {1, 2}
Timestamps == {100, 200}
Changes == {"c1", "c2"}        \* one memory change record (region, frame, address, prev_val, curr_val, freq)
Contexts == {"battle", "menu"}

\* event.json contents as read by process_directory
EventDatas ==
    [frame_set_id : FrameSetIds, timestamp : Timestamps,
     buttons : {<<"A", "None">>}, frames_in_set : {<<1, 2>>}]

MemoryChangeLists == SeqsUpTo(Changes, MaxChangesPerSet)

\* annotations.json contents
AnnotationDatas == [context : Contexts, scene : {"gym"}]

\* history entries are <<>> (never supplied) or <<value>>
NoneSupplied == <<>>

\* rows of a table that belong to (s, f), in rowid order
RowsOf(table, s, f) ==
    SelectSeq(table, LAMBDA r : r.session_uuid = s /\ r.frame_set_id = f)

\* the other rows, in rowid order
RowsNotOf(table, s, f) ==
    SelectSeq(table, LAMBDA r : ~(r.session_uuid = s /\ r.frame_set_id = f))

\* Mutant of InsertOrReplace: a plain INSERT on a table without the UNIQUE constraint
InsertNoReplace(table, row) == Append(table, row)

\* INSERT OR REPLACE under UNIQUE(session_uuid, frame_set_id): the conflicting
\* row is deleted and the new row gets a fresh rowid (end of the table)
InsertOrReplace(table, row) ==
    Append(RowsNotOf(table, row.session_uuid, row.frame_set_id), row)

\* DELETE FROM memory_changes WHERE session_uuid = ? AND frame_set_id = ?
DeleteMemoryChanges(table, s, f) == RowsNotOf(table, s, f)

\* the INSERT loop over the supplied list
MemoryChangeRows(s, f, changes) ==
    [i \in 1..Len(changes) |-> [session_uuid |-> s, frame_set_id |-> f, change |-> changes[i]]]

FrameSetRow(s, ev) ==
    [session_uuid |-> s, frame_set_id |-> ev.frame_set_id, timestamp |-> ev.timestamp,
     buttons |-> ev.buttons, frames_in_set |-> ev.frames_in_set]

AnnotationRow(s, f, ann) ==
    [session_uuid |-> s, frame_set_id |-> f, context |-> ann.context, scene |-> ann.scene]

IngestIdle ==
    /\ sessions = {}
    /\ frame_sets = <<>>
    /\ memory_changes = <<>>
    /\ annotations = <<>>
    /\ supplied = [s \in SessionUuids |-> [f \in FrameSetIds |->
                     [event |-> NoneSupplied, changes |-> NoneSupplied, annotation |-> NoneSupplied]]]

\* INSERT OR IGNORE INTO sessions
insert_session(s) ==
    /\ sessions' = sessions \cup {s}
    /\ UNCHANGED <<frame_sets, memory_changes, annotations, supplied>>

\* PRAGMA foreign_keys = ON: a row of an unknown session is rejected
insert_frame_set(s, ev) ==
    /\ s \in sessions
    /\ frame_sets' = InsertOrReplace(frame_sets, FrameSetRow(s, ev))
    /\ supplied' = [supplied EXCEPT ![s][ev.frame_set_id].event = <<ev>>]
    /\ UNCHANGED <<sessions, memory_changes, annotations>>

insert_memory_changes(s, f, changes) ==
    /\ s \in sessions
    /\ memory_changes' = DeleteMemoryChanges(memory_changes, s, f) \o MemoryChangeRows(s, f, changes)
    /\ supplied' = [supplied EXCEPT ![s][f].changes = <<changes>>]
    /\ UNCHANGED <<sessions, frame_sets, annotations>>

insert_annotation(s, f, ann) ==
    /\ s \in sessions
    /\ annotations' = InsertOrReplace(annotations, AnnotationRow(s, f, ann))
    /\ supplied' = [supplied EXCEPT ![s][f].annotation = <<ann>>]
    /\ UNCHANGED <<sessions, frame_sets, memory_changes>>

\* C1: after any sequence of ingestions the store holds, for every
\* (session_uuid, frame_set_id) that was ingested, exactly one frame_sets row and
\* exactly one annotations row (those of the latest call), and its memory_changes
\* rows are exactly the list supplied by the latest insert_memory_changes; hence
\* ingesting the same record again leaves the same rows.
C1_IdempotentIngestion ==
    \A s \in SessionUuids, f \in FrameSetIds :
        LET h == supplied[s][f] IN
        /\ RowsOf(frame_sets, s, f) =
              (IF h.event = NoneSupplied THEN <<>> ELSE <<FrameSetRow(s, h.event[1])>>)
        /\ RowsOf(annotations, s, f) =
              (IF h.annotation = NoneSupplied THEN <<>> ELSE <<AnnotationRow(s, f, h.annotation[1])>>)
        /\ RowsOf(memory_changes, s, f) =
              (IF h.changes = NoneSupplied THEN <<>> ELSE MemoryChangeRows(s, f, h.changes[1]))

\* a frame set that was ingested in full while another frame set's rows are in the tables too
C1_Witness ==
    /\ Len(frame_sets) = 2
    /\ Len(annotations) = 2
    /\ Len(RowsOf(memory_changes, "s1", 1)) = MaxChangesPerSet
    /\ Len(RowsOf(memory_changes, "s1", 2)) = MaxChangesPerSet
    /\ frame_sets[1].frame_set_id = 2

(***************************************************************************)
(* B.  Temporal split: create_temporal_split                               *)
(***************************************************************************)
MaxFrameNumber == 12           \* frame directories are named 1..MaxFrameNumber

TestSizeTenths == 2            \* test_size=0.2
DefaultMinGap == 20            \* min_gap=20
RequestedGaps == {DefaultMinGap, 3}

MaxSparse == 8                 \* most directories of a session recorded with a stride
Strides == {5, 10, 25}
MaxContiguous == 20            \* most directories of a session with consecutive frame numbers
FirstFrames == {1, 3}

\* sessions whose frame numbers are multiples of a stride
SparseFrames == {{k * stride : k \in S} : S \in SUBSET (1..MaxSparse), stride \in Strides}

\* sessions whose frame numbers are first, first + 1, ..., first + n - 1
ContiguousFrames == {first..(first + n - 1) : first \in FirstFrames, n \in 1..MaxContiguous}

\* np.argsort over distinct frame numbers: the ascending sequence
RECURSIVE SortedSeq(_)
SortedSeq(S) ==
    IF S = {} THEN <<>>
    ELSE LET m == CHOOSE x \in S : \A y \in S : x <= y
         IN <<m>> \o SortedSeq(S \ {m})

\* Mutant of NTest: test_size=0.1
NTestTenth(n) == n \div 10

\* n_test = int(len(frame_dirs) * test_size)
NTest(n) == (n * TestSizeTenths) \div 10

\* step = max(3, len(frame_dirs) // n_test)
SplitStepSize(n) == Max(3, n \div NTest(n))

\* Mutant of TestIndices: every step-th index, without the n_test cap
TestIndicesUncapped(n) == {i \in 0..(n - 1) : i % SplitStepSize(n) = 0}

\* 0-based indices taken by "for i in range(0, n, step): if len(test_indices) < n_test"
TestIndices(n) ==
    {i \in 0..(n - 1) : i % SplitStepSize(n) = 0 /\ i \div SplitStepSize(n) < NTest(n)}

TestFrames(frames) ==
    LET sorted == SortedSeq(frames)
    IN {sorted[i + 1] : i \in TestIndices(Len(sorted))}

\* Mutant of TooClose: the gap test is off by one
TooCloseOffByOne(frame_num, test_frames, min_gap) ==
    \E t \in test_frames : Abs(frame_num - t) < min_gap - 1

\* abs(frame_num - test_frame) < min_gap for some test frame
TooClose(frame_num, test_frames, min_gap) ==
    \E t \in test_frames : Abs(frame_num - t) < min_gap

TrainFrames(frames, min_gap) ==
    LET sorted == SortedSeq(frames)
        n == Len(sorted)
    IN {sorted[i + 1] : i \in {j \in 0..(n - 1) :
            j \notin TestIndices(n) /\ ~TooClose(sorted[j + 1], TestFrames(frames), min_gap)}}

SplitIdle ==
    /\ split_frames = {}
    /\ split_requested = 0
    /\ split_min_gap = 0
    /\ split_pc = "idle"
    /\ split_train = {}
    /\ split_test = {}
    /\ split_log = <<>>

\* create_temporal_split(frame_dirs, min_gap=g) is called
SplitInit ==
    /\ split_frames \in SUBSET (1..MaxFrameNumber) \cup SparseFrames \cup ContiguousFrames
    /\ split_requested \in RequestedGaps
    /\ split_min_gap = split_requested
    /\ split_pc = "call"
    /\ split_train = {}
    /\ split_test = {}
    /\ split_log = <<>>

\* len(frame_dirs) // n_test with n_test = 0: ZeroDivisionError
SplitRaise ==
    /\ split_pc = "call"
    /\ NTest(Cardinality(split_frames)) = 0
    /\ split_pc' = "raised"
    /\ UNCHANGED <<split_frames, split_requested, split_min_gap, split_train, split_test, split_log>>

\* too few train samples: print the reduction and recurse with min_gap // 2
SplitReduce ==
    /\ split_pc = "call"
    /\ NTest(Cardinality(split_frames)) > 0
    /\ 2 * Cardinality(TrainFrames(split_frames, split_min_gap)) < Cardinality(split_frames)
    /\ split_log' = Append(split_log, <<split_min_gap, split_min_gap \div 2>>)
    /\ split_min_gap' = split_min_gap \div 2
    /\ UNCHANGED <<split_frames, split_requested, split_pc, split_train, split_test>>

\* enough train samples: return train_dirs, test_dirs
SplitReturn ==
    /\ split_pc = "call"
    /\ NTest(Cardinality(split_frames)) > 0
    /\ ~(2 * Cardinality(TrainFrames(split_frames, split_min_gap)) < Cardinality(split_frames))
    /\ split_train' = TrainFrames(split_frames, split_min_gap)
    /\ split_test' = TestFrames(split_frames)
    /\ split_pc' = "done"
    /\ UNCHANGED <<split_frames, split_requested, split_min_gap, split_log>>

\* the gaps of the successive calls, from the requested one down to g
RECURSIVE HalvingChain(_, _)
HalvingChain(from, to) ==
    IF from <= to THEN <<>>
    ELSE <<(<<from, from \div 2>>)>> \o HalvingChain(from \div 2, to)

\* C2: when create_temporal_split returns, every train item and every test item
\* differ in frame number by at least the min_gap of the returning call, and one
\* gap-reduction message was printed for each halving from the requested min_gap
\* down to that value.
C2_GapInvariant ==
    split_pc = "done" =>
        /\ \A tr \in split_train, te \in split_test : Abs(tr - te) >= split_min_gap
        /\ split_log = HalvingChain(split_requested, split_min_gap)
        /\ split_min_gap < split_requested => Len(split_log) >= 1

\* a return after two halvings, with a gap above 1 and a train item exactly at the gap
C2_Witness ==
    /\ split_pc = "done"
    /\ split_requested = 20
    /\ split_min_gap = 5
    /\ Len(split_log) = 2
    /\ \E tr \in split_train, te \in split_test : Abs(tr - te) = 5

(***************************************************************************)
(* C.  Run downsampling: downsample_sequences                              *)
(***************************************************************************)
MaxRunLen == 12                \* longest frame_dirs list in which every directory has a label
MaxSeqLenWithNone == 6         \* longest frame_dirs list in which labels may be missing

MaxConsecutive == 5            \* max_consecutive=5
Labels == {"battle", "menu"}
NoLabel == "None"              \* load_annotations returned None

\* positions of frame_dirs whose label is present ("if context:"), in order
ValidDirs(labels) ==
    SelectSeq([i \in 1..Len(labels) |-> i], LAMBDA i : labels[i] # NoLabel)

\* Mutant of KeepInRun: the threshold itself is not below the threshold
KeepBelowThreshold(consecutive_count) ==
    consecutive_count < MaxConsecutive \/ consecutive_count % 3 = 0

\* Mutant of KeepInRun: every 3rd member counted from the threshold on
KeepEveryThirdBeyond(consecutive_count) ==
    consecutive_count <= MaxConsecutive \/ (consecutive_count - MaxConsecutive) % 3 = 0

\* consecutive_count <= max_consecutive or consecutive_count % 3 == 0
KeepInRun(consecutive_count) ==
    consecutive_count <= MaxConsecutive \/ consecutive_count % 3 = 0

\* the loop variables after contexts[i] was visited (i is 1-based; the first
\* element is taken before the loop "for i in range(1, len(contexts))"), and
\* whether that element was appended to the output
DownsampleLoop(contexts) ==
    LET L[i \in 1..Len(contexts)] ==
            IF i = 1
            THEN [current_context |-> contexts[1], consecutive_count |-> 1, appended |-> TRUE]
            ELSE LET before == L[i - 1]
                 IN IF contexts[i] = before.current_context
                    THEN [current_context |-> before.current_context,
                          consecutive_count |-> before.consecutive_count + 1,
                          appended |-> KeepInRun(before.consecutive_count + 1)]
                    ELSE [current_context |-> contexts[i], consecutive_count |-> 1,
                          appended |-> TRUE]
    IN L

\* indices of contexts kept by downsample_sequences
DownsampleKept(contexts) ==
    LET L == DownsampleLoop(contexts)
    IN SelectSeq([i \in 1..Len(contexts) |-> i], LAMBDA i : L[i].appended)

DownIdle ==
    /\ ds_labels = <<>>
    /\ ds_pc = "idle"
    /\ ds_dirs = <<>>
    /\ ds_contexts = <<>>

DownInit ==
    /\ ds_labels \in SeqsUpTo(Labels, MaxRunLen) \cup SeqsUpTo(Labels \cup {NoLabel}, MaxSeqLenWithNone)
    /\ ds_pc = "call"
    /\ ds_dirs = <<>>
    /\ ds_contexts = <<>>

\* downsample_sequences(frame_dirs) runs and returns downsampled_dirs, downsampled_contexts
downsample_sequences ==
    /\ ds_pc = "call"
    /\ LET valid_dirs == ValidDirs(ds_labels)
           contexts == SelectSeq(ds_labels, LAMBDA l : l # NoLabel)
           kept == DownsampleKept(contexts)
       IN /\ ds_dirs' = [i \in 1..Len(kept) |-> valid_dirs[kept[i]]]
          /\ ds_contexts' = [i \in 1..Len(kept) |-> contexts[kept[i]]]
    /\ ds_pc' = "done"
    /\ UNCHANGED ds_labels

\* a..b is a maximal run of identical labels in contexts
IsRun(contexts, a, b) ==
    /\ a <= b
    /\ \A i \in a..b : contexts[i] = contexts[a]
    /\ a = 1 \/ contexts[a - 1] # contexts[a]
    /\ b = Len(contexts) \/ contexts[b + 1] # contexts[a]

\* members of a..b (indices of the labelled directories) that were retained
Retained(valid_dirs, dirs, a, b) == Cardinality({i \in a..b : valid_dirs[i] \in dirs})

\* C5 (as stated): a run of k consecutive identical labels keeps exactly
\* min(k, 5 + floor((k-5)/3)) members.
C5_RunKeepsSpecFormula ==
    ds_pc = "done" =>
        LET valid_dirs == ValidDirs(ds_labels)
            contexts == SelectSeq(ds_labels, LAMBDA l : l # NoLabel)
            dirs == Range(ds_dirs)
        IN \A a \in 1..Len(contexts) : \A b \in a..Len(contexts) :
            IsRun(contexts, a, b) =>
                LET k == b - a + 1
                IN Retained(valid_dirs, dirs, a, b) =
                      Min(k, MaxConsecutive + ((k - MaxConsecutive) \div 3))

\* C5 (amended): a run of k consecutive identical labels keeps exactly
\* min(k, 4 + floor(k/3)) members: its first five and, beyond them, those whose
\* 1-based position in the run is a multiple of 3.
C5_RunKeepsCount ==
    ds_pc = "done" =>
        LET valid_dirs == ValidDirs(ds_labels)
            contexts == SelectSeq(ds_labels, LAMBDA l : l # NoLabel)
            dirs == Range(ds_dirs)
        IN \A a \in 1..Len(contexts) : \A b \in a..Len(contexts) :
            IsRun(contexts, a, b) =>
                LET k == b - a + 1
                IN Retained(valid_dirs, dirs, a, b) = Min(k, (MaxConsecutive - 1) + (k \div 3))

\* a run of 9 was downsampled to 7 members, after a shorter run that was kept whole
C5_Witness ==
    /\ ds_pc = "done"
    /\ Len(ds_labels) = 12
    /\ IsRun(ds_labels, 1, 3) /\ IsRun(ds_labels, 4, 12)
    /\ ds_dirs = <<1, 2, 3, 4, 5, 6, 7, 8, 9, 12>>
    /\ Len(ds_contexts) = 10

(***************************************************************************)
(* D.  Windowed samples: GBATrainingDatabase._generate_windowed_samples    *)
(*     and the file bundler create_training_dataset                        *)
(***************************************************************************)
MaxFrames == 3                 \* frames of the session in the training database
MaxBundleFrame == 9            \* frame directories are named 1..MaxBundleFrame

FrameBundleSize == 8           \* frame_bundle_size = 8
WindowSizes == {2, 3}          \* --window_size
\* label of the frame with frame number n: every frame has a label of its own,
\* so a sample's label tells which member it was taken from
ContextNames == <<"battle", "menu", "overworld", "shop", "title", "credits",
                  "intro", "bag", "map", "save", "load", "end">>

NoAnnotation == [present |-> FALSE, context |-> ""]     \* no annotations row / no annotations.json
EmptyAnnotation == [present |-> TRUE, context |-> ""]   \* a row whose fields are all empty
Labelled(n) == [present |-> TRUE, context |-> ContextNames[n]]

\* values are fixed-width hex text, compared as text by MIN/MAX: 0 is "00", 5 is "05"
Addr == "0300ABCD"
OtherAddr == "02000010"
MemChange(address, prev_val, curr_val) ==
    [region |-> "IWRAM", address |-> address, prev_val |-> prev_val, curr_val |-> curr_val, freq |-> 1]
ChangeOptions ==
    {<<>>, <<MemChange(Addr, 0, 1)>>, <<MemChange(Addr, 1, 5)>>, <<MemChange(Addr, 5, 3)>>,
     <<MemChange(Addr, 3, 1)>>, <<MemChange(OtherAddr, 2, 4)>>}

RECURSIVE SumFreq(_)
SumFreq(rows) == IF rows = <<>> THEN 0 ELSE rows[1].freq + SumFreq(Tail(rows))

RECURSIVE Flatten(_)
Flatten(lists) == IF lists = <<>> THEN <<>> ELSE lists[1] \o Flatten(Tail(lists))

SetMin(S) == CHOOSE x \in S : \A y \in S : x <= y
SetMax(S) == CHOOSE x \in S : \A y \in S : x >= y

\* rows of memory_changes WHERE frame_id IN (the window's frames), in rowid order
WindowRows(window) == Flatten([i \in 1..Len(window) |-> window[i].memory_changes])

GroupKeys(rows) == {<<r.region, r.address>> : r \in Range(rows)}
GroupRows(rows, key) == SelectSeq(rows, LAMBDA r : <<r.region, r.address>> = key)

\* Mutant of AggregateDb (and what the column aliases promise): first prev_val, last curr_val
AggregateFirstLast(rows) ==
    {LET g == GroupRows(rows, key)
     IN [region |-> key[1], address |-> key[2],
         first_prev_val |-> g[1].prev_val,
         last_curr_val |-> g[Len(g)].curr_val,
         total_freq |-> SumFreq(g)] : key \in GroupKeys(rows)}

\* SELECT region, address, MIN(prev_val), MAX(curr_val), SUM(freq) ... GROUP BY region, address
AggregateDb(rows) ==
    {LET g == GroupRows(rows, key)
     IN [region |-> key[1], address |-> key[2],
         first_prev_val |-> SetMin({r.prev_val : r \in Range(g)}),
         last_curr_val |-> SetMax({r.curr_val : r \in Range(g)}),
         total_freq |-> SumFreq(g)] : key \in GroupKeys(rows)}

\* _build_completion: None when every field is empty
BuildCompletion(annotation) == annotation.context

\* Mutant of WindowLabelSource: the latest annotated member of the window
LatestAnnotatedMember(window) ==
    IF \E i \in 1..Len(window) : window[i].annotation.present
    THEN window[SetMax({i \in 1..Len(window) : window[i].annotation.present})]
    ELSE window[Len(window)]

\* last_frame = window[-1]
WindowLabelSource(window) == window[Len(window)]

\* the body of "for i in range(0, len(frames), window_size)" for the window that starts at
\* 0-based index i: the samples it inserts
WindowSamples(frames, window_size, i) ==
    LET window == SubSeq(frames, i + 1, Min(i + window_size, Len(frames)))
        last_frame == WindowLabelSource(window)
    IN IF Len(window) < window_size THEN <<>>
       ELSE IF ~last_frame.annotation.present THEN <<>>
       ELSE IF BuildCompletion(last_frame.annotation) = "" THEN <<>>
       ELSE <<[frame_range |-> <<window[1].frame_number, window[Len(window)].frame_number>>,
               completion |-> BuildCompletion(last_frame.annotation),
               memory_changes |-> AggregateDb(WindowRows(window))]>>

\* _generate_windowed_samples: the rows inserted into training_samples, in insertion order
GenerateWindowedSamples(frames, window_size) ==
    Flatten([k \in 1..((Len(frames) + window_size - 1) \div window_size) |->
                WindowSamples(frames, window_size, (k - 1) * window_size)])

\* event.json memory_changes of the frame directory n (file bundler)
BundleChanges(n) == <<MemChange(Addr, n % 6, (n + 1) % 6)>>

\* format_training_sample's aggregation: first change's prev_val, last change's curr_val
AggregateBundle(rows) ==
    {LET g == GroupRows(rows, key)
     IN [region |-> key[1], address |-> key[2],
         prev_val |-> g[1].prev_val, curr_val |-> g[Len(g)].curr_val] : key \in GroupKeys(rows)}

\* format_training_sample(frame_bundle): annotation of frame_bundle[-1]
FormatTrainingSample(frame_bundle) ==
    LET last_frame == frame_bundle[Len(frame_bundle)]
    IN [frame_range |-> <<frame_bundle[1].frame_number, last_frame.frame_number>>,
        completion |-> IF last_frame.annotation.present
                       THEN BuildCompletion(last_frame.annotation) ELSE "",
        memory_changes |-> AggregateBundle(WindowRows(frame_bundle))]

\* the frames of frame_lookup with range_start <= frame number < range_start + 8, ascending
FrameBundle(lookup, range_start) ==
    SelectSeq([j \in 1..FrameBundleSize |-> lookup[range_start + j - 1]],
              LAMBDA f : f.exists)

\* the body of "for range_start in range(min_frame, max_frame + 1, 8)"
BundleSamples(lookup, range_start) ==
    LET frame_bundle == FrameBundle(lookup, range_start)
    IN IF frame_bundle = <<>> THEN <<>>
       ELSE IF ~\E j \in 1..Len(frame_bundle) : frame_bundle[j].annotation.present THEN <<>>
       ELSE IF FormatTrainingSample(frame_bundle).completion = "" THEN <<>>
       ELSE <<FormatTrainingSample(frame_bundle)>>

\* frame_lookup, total over the frame numbers a bundle can reach
BundleLookup(frames) ==
    [n \in 1..(MaxBundleFrame + FrameBundleSize) |->
        IF n \in DOMAIN frames /\ frames[n].exists THEN frames[n]
        ELSE [exists |-> FALSE, frame_number |-> n, annotation |-> NoAnnotation, memory_changes |-> <<>>]]

\* create_training_dataset: training_samples
CreateTrainingDataset(frames) ==
    LET present == {n \in DOMAIN frames : frames[n].exists}
    IN IF present = {} THEN <<>>
       ELSE LET min_frame == SetMin(present)
                max_frame == SetMax(present)
                lookup == BundleLookup(frames)
            IN Flatten([k \in 1..(((max_frame - min_frame) \div FrameBundleSize) + 1) |->
                          BundleSamples(lookup, min_frame + (k - 1) * FrameBundleSize)])

SampleIdle ==
    /\ win_frames = <<>>
    /\ win_size = 0
    /\ bundle_frames = <<>>
    /\ sample_pc = "idle"
    /\ training_samples = <<>>

\* a training database was loaded and normalised; generate_training_samples(window_size) is called
WinInit ==
    /\ \E n \in 1..MaxFrames :
          win_frames \in [1..n -> [annotation : {"none", "empty", "labelled"}, changes : ChangeOptions]]
    /\ win_size \in WindowSizes
    /\ bundle_frames = <<>>
    /\ sample_pc = "db"
    /\ training_samples = <<>>

\* a data directory was written; create_training_dataset(data_dir) is called
BundleInit ==
    /\ win_frames = <<>>
    /\ win_size = 0
    /\ bundle_frames \in [1..MaxBundleFrame -> {"absent", "none", "labelled"}]
    /\ sample_pc = "files"
    /\ training_samples = <<>>

AnnotationOf(kind, n) ==
    IF kind = "labelled" THEN Labelled(n) ELSE IF kind = "empty" THEN EmptyAnnotation ELSE NoAnnotation

\* SELECT * FROM frames WHERE session_id = ? ORDER BY frame_number, with each frame's rows
WinFrames ==
    [i \in 1..Len(win_frames) |->
        [exists |-> TRUE, frame_number |-> i, annotation |-> AnnotationOf(win_frames[i].annotation, i),
         memory_changes |-> win_frames[i].changes]]

\* load_frame_data(data_dir)
BundleFrames ==
    [n \in 1..Len(bundle_frames) |->
        [exists |-> bundle_frames[n] # "absent", frame_number |-> n,
         annotation |-> AnnotationOf(bundle_frames[n], n), memory_changes |-> BundleChanges(n)]]

generate_windowed_samples ==
    /\ sample_pc = "db"
    /\ training_samples' = GenerateWindowedSamples(WinFrames, win_size)
    /\ sample_pc' = "done"
    /\ UNCHANGED <<win_frames, win_size, bundle_frames>>

create_training_dataset ==
    /\ sample_pc = "files"
    /\ training_samples' = CreateTrainingDataset(BundleFrames)
    /\ sample_pc' = "done"
    /\ UNCHANGED <<win_frames, win_size, bundle_frames>>


\* C3: in a windowed sample of the database sampler, the aggregated entry of every
\* (region, address) that changes in the window carries the prev_val of the earliest
\* change in the window and the curr_val of the latest one.
C3_WindowNetEffect ==
    (sample_pc = "done" /\ win_size > 0) =>
        \A k \in 1..Len(training_samples) :
            LET sample == training_samples[k]
                rows == WindowRows(SubSeq(WinFrames, sample.frame_range[1], sample.frame_range[2]))
            IN \A e \in sample.memory_changes :
                 LET g == GroupRows(rows, <<e.region, e.address>>)
                 IN /\ e.first_prev_val = g[1].prev_val
                    /\ e.last_curr_val = g[Len(g)].curr_val

\* the members of the bundle that starts at frame number range_start
BundleMembers(range_start) ==
    {n \in 1..Len(bundle_frames) :
        /\ bundle_frames[n] # "absent"
        /\ range_start <= n /\ n < range_start + FrameBundleSize}

MaxLogLen == 2

\* game_config['keys']: {console_button: keyboard_key}
GameKeys == [A |-> "X", B |-> "z"]

\* str.lower() and str.strip() on the key strings of the model
Lower(s) == CASE s = "X" -> "x" [] s = "Q" -> "q" [] s = "None" -> "none" [] OTHER -> s
Strip(s) == CASE s = " " -> "" [] OTHER -> s

\* key_map_rev = {v.lower(): k for k, v in key_map.items()}
KeyMapRev == [k \in {Lower(GameKeys[b]) : b \in DOMAIN GameKeys} |->
                 CHOOSE b \in DOMAIN GameKeys : Lower(GameKeys[b]) = k]

map_key_to_button(key_str) ==
    IF key_str = "None" \/ Strip(key_str) = "" THEN "None"
    ELSE LET key == Lower(Strip(key_str))
         IN IF key \in DOMAIN KeyMapRev THEN KeyMapRev[key] ELSE key

CsvRow(n, ts, fr, addr, prev, curr, key, fsid, ok) ==
    [ncols |-> n, timestamp |-> ts, region |-> "IWRAM", frame |-> fr, address |-> addr,
     prev_val |-> prev, curr_val |-> curr, freq |-> 1, pc |-> "08001234",
     current_key |-> key, frame_set_id |-> fsid, chunk_id |-> 0, ints_ok |-> ok]

\* a legacy row has 10 columns: no frame_set_id, no chunk_id (held as 0 here, never read)
LegacyRow == CsvRow(10, 300, 30, "0200FFFF", "0A", "0B", "z", 0, TRUE)
\* the header line: 12 columns, none of them an integer
HeaderRow == CsvRow(12, 0, 0, "addr", "prev_val", "curr_val", "current_key", 0, FALSE)

DataRows ==
    { CsvRow(12, 100, 10, "0300ABCD", "00", "01", "X", 1, TRUE),
      CsvRow(12, 110, 11, "0300ABCE", "05", "03", "Q", 1, TRUE),
      CsvRow(12, 200, 10, "0300ABCD", "01", "02", " ", 7, TRUE),
      LegacyRow }

LogRows == DataRows \cup {HeaderRow}

\* frame-set directory names that can occur under the session directory
DirIds == {r.frame_set_id : r \in LogRows}
SnapshotSets == {{}, {1}}

NoDir == <<>>
NoPng == <<>>

\* Mutant of WellFormed: the legacy 10-column layout is accepted as well
AcceptsLegacy(row) == row.ncols >= 10

\* if len(row) != 12: continue
WellFormed(row) == row.ncols = 12

ParsedRows(log) == SelectSeq(log, WellFormed)

\* int(frame_set_id), int(frame), int(timestamp), int(chunk_id), int(freq) raise ValueError
Raises(log) == \E i \in 1..Len(ParsedRows(log)) : ~ParsedRows(log)[i].ints_ok

EventData(row) ==
    [timestamp |-> row.timestamp, region |-> row.region, frame |-> row.frame,
     chunk_id |-> row.chunk_id, address |-> row.address, prev_val |-> row.prev_val,
     curr_val |-> row.curr_val, freq |-> row.freq, pc |-> row.pc,
     current_key |-> map_key_to_button(row.current_key)]

RowsOfSet(log, fsid) == SelectSeq(ParsedRows(log), LAMBDA r : r.frame_set_id = fsid)

frame_set_events(log, fsid) ==
    [i \in 1..Len(RowsOfSet(log, fsid)) |-> EventData(RowsOfSet(log, fsid)[i])]

frame_set_frames(log, fsid) == {r.frame : r \in Range(RowsOfSet(log, fsid))}

\* frame_keys[frame] = mapped_current_key: keyed by frame number alone, the last row wins
frame_keys(log, f) ==
    LET rows == SelectSeq(ParsedRows(log), LAMBDA r : r.frame = f)
    IN IF rows = <<>> THEN "None" ELSE map_key_to_button(rows[Len(rows)].current_key)

valid_frame_set_ids(log) == {r.frame_set_id : r \in Range(ParsedRows(log))}

MemChangeOf(e) ==
    [region |-> e.region, frame |-> e.frame, address |-> e.address,
     prev_val |-> e.prev_val, curr_val |-> e.curr_val, freq |-> e.freq]

TopLevel(log, fsid) ==
    LET events == frame_set_events(log, fsid)
        final_frame == SetMax(frame_set_frames(log, fsid))
        final_frame_events == SelectSeq(events, LAMBDA e : e.frame = final_frame)
        first_final == IF final_frame_events # <<>> THEN final_frame_events[1]
                       ELSE events[Len(events)]
        frames_in_set == SortedSeq(frame_set_frames(log, fsid))
    IN [timestamp |-> first_final.timestamp,
        buttons |-> [i \in 1..Len(frames_in_set) |-> frame_keys(log, frames_in_set[i])],
        frame_set_id |-> fsid,
        frames_in_set |-> frames_in_set,
        memory_changes |-> [i \in 1..Len(events) |-> MemChangeOf(events[i])]]

Existing(dirs) == {d \in DirIds : dirs[d] # NoDir}

\* os.makedirs(frame_set_dir, exist_ok=True); json.dump(top_level, event.json): the directory's
\* other files stay
WriteFrameSets(dirs, log) ==
    [d \in DirIds |->
        IF d \in valid_frame_set_ids(log)
        THEN <<[event |-> TopLevel(log, d),
                png |-> IF dirs[d] # NoDir THEN dirs[d][1].png ELSE NoPng]>>
        ELSE dirs[d]]

\* Mutant of CleanupStale: nothing is removed
KeepStale(dirs, valid) == dirs

\* shutil.rmtree of every directory whose name isdigit() and is not in valid_frame_set_strs
\* (str() of a non-negative frame_set_id is all digits)
CleanupStale(dirs, valid) ==
    [d \in DirIds |-> IF dirs[d] # NoDir /\ d \notin valid THEN NoDir ELSE dirs[d]]

\* snapshots.get(frame_set_id), else the most recent previous snapshot
SnapshotFor(snapshots, d) ==
    IF d \in snapshots THEN {d}
    ELSE LET prev == {f \in snapshots : f < d}
         IN IF prev = {} THEN {} ELSE {SetMax(prev)}

\* shutil.copy2(snap_path, <frame_set_id>.png) for every directory holding an event.json
CopySnapshots(dirs, snapshots) ==
    [d \in DirIds |->
        IF dirs[d] # NoDir /\ SnapshotFor(snapshots, d) # {}
        THEN <<[dirs[d][1] EXCEPT !.png = <<SetMax(SnapshotFor(snapshots, d))>>]>>
        ELSE dirs[d]]

Msg(kind, args) == [kind |-> kind, args |-> args]

\* the print() calls of a pass, in order (per-directory messages in ascending id order)
PrintedStart == <<Msg("Creating session", <<>>), Msg("Session directory", <<>>),
                  Msg("Parsing CSV and writing per-frame-set JSON arrays", <<>>)>>

PrintedWrite(dirs, log) ==
    LET valid == valid_frame_set_ids(log)
        stale == SortedSeq(Existing(dirs) \ valid)
    IN <<Msg("Finished writing per-frame-set JSON files.", <<>>),
         Msg("Session metadata saved", <<>>),
         Msg("Session contains frame sets",
             <<Cardinality(valid),
               IF valid # {} THEN SetMin(valid) ELSE 0,
               IF valid # {} THEN SetMax(valid) ELSE 0>>)>>
       \o [i \in 1..Len(stale) |-> Msg("Removing stale frame set directory", <<stale[i]>>)]

PrintedSnapshots(dirs, snapshots, cleanup) ==
    LET ds == SortedSeq(Existing(dirs))
        Warn(d) == IF d \in snapshots THEN <<>>
                   ELSE <<Msg("Warning: No snapshot found for frame_set_id", <<d>>)>>
                        \o (IF SnapshotFor(snapshots, d) # {}
                            THEN <<Msg("Using fallback snapshot from frame_set_id",
                                       <<SetMax(SnapshotFor(snapshots, d))>>)>>
                            ELSE <<>>)
    IN <<Msg("Scanning snapshots", <<>>), Msg("Found snapshots", <<Cardinality(snapshots)>>)>>
       \o (IF snapshots = {} THEN <<Msg("No snapshots found. Exiting.", <<>>)>>
           ELSE <<Msg("Copying matching snapshot to each frame set directory", <<>>)>>
                \o Flatten([i \in 1..Len(ds) |-> Warn(ds[i])])
                \o <<Msg("Finished moving snapshots.", <<>>)>>
                \o (IF cleanup THEN <<Msg("Cleaning up", <<>>),
                                      Msg("Snapshots directory cleaned up.", <<>>)>>
                    ELSE <<>>))

\* session_metadata.json (the creation time is left out)
SessionMetadata(log) ==
    LET valid == valid_frame_set_ids(log)
    IN [total_frame_sets |-> Cardinality(valid),
        frame_set_id_range |-> [min |-> IF valid # {} THEN SetMin(valid) ELSE 0,
                                max |-> IF valid # {} THEN SetMax(valid) ELSE 0]]

AggIdle ==
    /\ agg_dirs = [d \in DirIds |-> NoDir]
    /\ agg_snapshots = {}
    /\ agg_log = <<>>
    /\ agg_status = "idle"
    /\ agg_printed = <<>>
    /\ agg_metadata = <<>>

\* a fresh session directory; the emulator has left some snapshots
AggInit ==
    /\ agg_dirs = [d \in DirIds |-> NoDir]
    /\ agg_snapshots \in SnapshotSets
    /\ agg_log = <<>>
    /\ agg_status = "idle"
    /\ agg_printed = <<>>
    /\ agg_metadata = <<>>

\* one run of combine_event_data.py over the CSV `log` that stops with ValueError in the parse loop
aggregate_raises(log) ==
    /\ Raises(log)
    /\ agg_log' = log
    /\ agg_status' = "raised"
    /\ agg_printed' = PrintedStart
    /\ UNCHANGED <<agg_dirs, agg_snapshots, agg_metadata>>

\* one complete run of combine_event_data.py over the CSV `log`
aggregate(log, cleanup) ==
    /\ ~Raises(log)
    /\ LET valid == valid_frame_set_ids(log)
           written == WriteFrameSets(agg_dirs, log)
           cleaned == CleanupStale(written, valid)
       IN /\ agg_dirs' = CopySnapshots(cleaned, agg_snapshots)
          /\ agg_printed' = PrintedStart \o PrintedWrite(written, log)
                            \o PrintedSnapshots(cleaned, agg_snapshots, cleanup)
          /\ agg_snapshots' = IF agg_snapshots # {} /\ cleanup THEN {} ELSE agg_snapshots
    /\ agg_metadata' = <<SessionMetadata(log)>>
    /\ agg_log' = log
    /\ agg_status' = "done"

\* the CSV files of the model: up to MaxLogLen rows, with or without a header line first
Logs == SeqsUpTo(DataRows, MaxLogLen)
           \cup {<<HeaderRow>> \o rows : rows \in SeqsUpTo(DataRows, MaxLogLen - 1)}

\* rows the parser can take in: 12 columns, integer columns are integers
Parsable(row) == row.ncols = 12 /\ row.ints_ok

\* C6: after an aggregation pass over an input log, the numerically named frame-set directories
\* under the session directory are exactly the frame_set_ids of the log's well-formed rows
C6_DirsAreImageOfLog ==
    agg_status # "idle" =>
        Existing(agg_dirs) = {agg_log[i].frame_set_id : i \in {j \in 1..Len(agg_log) : Parsable(agg_log[j])}}

\* what the cleanup does achieve: after a pass that ran to its end the directories are the
\* image of the log, stale ones removed
CompletedPassIsImageOfLog ==
    agg_status = "done" => Existing(agg_dirs) = valid_frame_set_ids(agg_log)

\* C7: a row whose column count is not 12 contributes no frame, no button, no memory change and
\* no timestamp to any frame set, and creates no frame set (the legacy row of the model is the
\* only row with its frame number, address, key and timestamp)
C7_MalformedRowSkipped ==
    \A i \in 1..Len(agg_log) : agg_log[i].ncols # 12 =>
        /\ agg_status = "done" =>
              Existing(agg_dirs) \subseteq
                 {agg_log[j].frame_set_id : j \in {k \in 1..Len(agg_log) : agg_log[k].ncols = 12}}
        /\ \A d \in Existing(agg_dirs) :
              LET e == agg_dirs[d][1].event
              IN /\ agg_log[i].frame \notin Range(e.frames_in_set)
                 /\ map_key_to_button(agg_log[i].current_key) \notin Range(e.buttons)
                 /\ e.timestamp # agg_log[i].timestamp
                 /\ \A k \in 1..Len(e.memory_changes) :
                       /\ e.memory_changes[k].address # agg_log[i].address
                       /\ e.memory_changes[k].frame # agg_log[i].frame

\* a legacy row and a 12-column row in one log: only the latter's frame set exists
C7_Witness ==
    /\ agg_status = "done"
    /\ Len(agg_log) = 2
    /\ agg_log[1] = LegacyRow
    /\ agg_log[2].frame_set_id = 7
    /\ Existing(agg_dirs) = {7}
    /\ Len(agg_dirs[7][1].event.memory_changes) = 1

\* C8: after a pass that skipped rows the aggregator reports the number of rows it skipped,
\* which is the number of input rows whose column count was not 12
C8_SkippedRowsReported ==
    LET skipped == Cardinality({i \in 1..Len(agg_log) : agg_log[i].ncols # 12})
    IN agg_status = "done" /\ skipped > 0 =>
           \/ \E k \in 1..Len(agg_printed) :
                 /\ agg_printed[k].kind = "skipped rows"
                 /\ agg_printed[k].args = <<skipped>>
           \/ /\ agg_metadata # <<>>
              /\ "skipped_rows" \in DOMAIN agg_metadata[1]
              /\ agg_metadata[1].skipped_rows = skipped

(***************************************************************************)
(* F. Frequency normaliser                                                 *)
(*    (src/scripts/prepare_database_training_data.py, normalize_frequencies)*)
(*                                                                         *)
(* norm_freqs is the freq column of the session's memory_changes rows in   *)
(* id order, norm_values their freq_normalized column.  A REAL is kept as  *)
(* an exact quotient num/den, or as the quotient of logarithms             *)
(* LOG(num)/LOG(den); SQLite gives NULL for a division by zero.            *)
(***************************************************************************)
MaxFreq == 2
MaxFreqRows == 3

FreqMethods == {"max_normalize", "percentile_clamp", "log_scale", "rank_normalize"}

SqlNull == [kind |-> "null", num |-> 0, den |-> 0]
Real(n) == [kind |-> "ratio", num |-> n, den |-> 1]

\* CAST(a AS REAL) / b
SqlDiv(a, b) == IF b = 0 THEN SqlNull ELSE [kind |-> "ratio", num |-> a, den |-> b]

\* LOG(a) / LOG(b) for a, b >= 1; LOG(1) = 0.0
SqlLogDiv(a, b) == IF b = 1 THEN SqlNull ELSE [kind |-> "logratio", num |-> a, den |-> b]

\* SELECT freq ... ORDER BY mc.freq
OrderByFreq(freqs) ==
    [k \in 1..Len(freqs) |->
        SetMin({v \in Range(freqs) : Cardinality({i \in 1..Len(freqs) : freqs[i] <= v}) >= k})]

\* SELECT MAX(freq): NULL over no rows
MaxFreqOf(freqs) == IF freqs = <<>> THEN <<>> ELSE <<SetMax(Range(freqs))>>

\* max_freq = result['max_freq'] if result and result['max_freq'] else 1; if max_freq == 0: max_freq = 1
MaxNormalize(freqs) ==
    LET m == MaxFreqOf(freqs)
        max_freq == IF m # <<>> /\ m[1] # 0 THEN m[1] ELSE 1
    IN [i \in 1..Len(freqs) |-> SqlDiv(freqs[i], max_freq)]

\* percentile_95 = freqs[int(len(freqs) * 0.95)]; CASE WHEN freq > ? THEN 1.0 ELSE CAST(freq AS REAL) / ? END
PercentileClamp(freqs) ==
    IF freqs = <<>> THEN freqs
    ELSE LET percentile_95 == OrderByFreq(freqs)[((Len(freqs) * 95) \div 100) + 1]
         IN [i \in 1..Len(freqs) |->
                IF freqs[i] > percentile_95 THEN Real(1) ELSE SqlDiv(freqs[i], percentile_95)]

\* LOG(freq + 1) / LOG((SELECT MAX(freq) + 1 ...))
LogScale(freqs) ==
    [i \in 1..Len(freqs) |-> SqlLogDiv(freqs[i] + 1, MaxFreqOf(freqs)[1] + 1)]

\* CAST(RANK() OVER (ORDER BY mc.freq) AS REAL) / COUNT(*) OVER ()
RankNormalize(freqs) ==
    [i \in 1..Len(freqs) |->
        SqlDiv(1 + Cardinality({j \in 1..Len(freqs) : freqs[j] < freqs[i]}), Len(freqs))]

NormalizeFrequencies(freqs, freq_method) ==
    CASE freq_method = "max_normalize" -> MaxNormalize(freqs)
      [] freq_method = "percentile_clamp" -> PercentileClamp(freqs)
      [] freq_method = "log_scale" -> LogScale(freqs)
      [] freq_method = "rank_normalize" -> RankNormalize(freqs)

NormIdle ==
    /\ norm_freqs = <<>>
    /\ norm_method = "none"
    /\ norm_pc = "idle"
    /\ norm_values = <<>>

\* a session was loaded: freq_normalized is NULL in every row
NormInit ==
    /\ norm_freqs \in SeqsUpTo(0..MaxFreq, MaxFreqRows)
    /\ norm_method \in FreqMethods
    /\ norm_pc = "call"
    /\ norm_values = [i \in 1..Len(norm_freqs) |-> SqlNull]

normalize_frequencies ==
    /\ norm_pc = "call"
    /\ norm_values' = NormalizeFrequencies(norm_freqs, norm_method)
    /\ norm_pc' = "done"
    /\ UNCHANGED <<norm_freqs, norm_method>>

\* a REAL that is a number in [0,1]
InUnitInterval(v) ==
    \/ v.kind = "ratio" /\ v.den > 0 /\ 0 <= v.num /\ v.num <= v.den
    \/ v.kind = "logratio" /\ v.den > 1 /\ 1 <= v.num /\ v.num <= v.den

\* C9: for each of the four strategies and every collection of non-negative frequencies (empty,
\* with zeros, only zeros), every memory change of the session ends with a normalized
\* frequency that is a number in [0,1]
C9_NormalizedInUnitInterval ==
    norm_pc = "done" => \A i \in 1..Len(norm_freqs) : InUnitInterval(norm_values[i])

(***************************************************************************)
(* G. Natural-language query engine (flask-rest/memory_agent.py)           *)
(*                                                                         *)
(* A question is a sequence of words joined by single spaces; keyword and  *)
(* phrase tests are substring tests on the lowered string, as `in` is.     *)
(* A confidence is a double: hundredths/100, or the double just below it   *)
(* (ulps = -1) where the floating-point sum falls short.                   *)
(***************************************************************************)
MaxWords == 2

Words == {"battle", "Enemy", "hp", "experience", "overworld", "what", "context", "health",
          "walk", "250", "7"}

\* str.lower() on the words of the model
LowerWord(w) == CASE w = "Enemy" -> "enemy" [] w = "Which" -> "which" [] OTHER -> w

\* " ".join(words)
RECURSIVE Join(_)
Join(words) ==
    IF words = <<>> THEN ""
    ELSE IF Len(words) = 1 THEN words[1]
    ELSE words[1] \o " " \o Join(Tail(words))

\* query.lower()
QueryLower(words) == Join([i \in 1..Len(words) |-> LowerWord(words[i])])

\* keyword in query_lower
Contains(s, k) == \E i \in 1..(Len(s) - Len(k) + 1) : SubSeq(s, i, i + Len(k) - 1) = k

\* self.query_templates, in registration (dict) order
TemplateNames == <<"battle_addresses", "health_addresses", "movement_buttons",
                   "experience_addresses", "address_exploration">>

TemplateKeywords(t) ==
    CASE t = "battle_addresses" -> <<"battle", "combat", "fight", "attack", "enemy">>
      [] t = "health_addresses" -> <<"health", "hp", "damage", "enemy health", "player health", "hurt">>
      [] t = "movement_buttons" -> <<"movement", "moving", "overworld", "button", "walk", "direction">>
      [] t = "experience_addresses" -> <<"experience", "xp", "medal", "points", "level", "gain">>
      [] t = "address_exploration" -> <<"address", "memory", "what", "show", "find">>

\* the phrases that earn the bonus
TemplatePhrases(t) ==
    CASE t = "battle_addresses" -> {"battle context", "during battle"}
      [] t = "health_addresses" -> {"enemy health", "player health", "hp"}
      [] t = "movement_buttons" -> {"button press", "overworld", "moving around"}
      [] t = "experience_addresses" -> {"medal xp", "experience points", "after battle"}
      [] t = "address_exploration" -> {}

PhraseBonus == 2

MatchedKeywords(t, q) == SelectSeq(TemplateKeywords(t), LAMBDA k : Contains(q, k))

TemplateScore(t, q) ==
    Len(MatchedKeywords(t, q))
      + (IF \E p \in TemplatePhrases(t) : Contains(q, p) THEN PhraseBonus ELSE 0)

Confidence(h, u) == [hundredths |-> h, ulps |-> u]

\* Mutant of MatchConfidence: 0.1 per point instead of 0.15
MatchConfidenceTenth(score) ==
    IF score >= 6 THEN Confidence(90, 0) ELSE Confidence(30 + 10 * score, 0)

\* min(0.9, 0.3 + (score * 0.15)) in IEEE doubles: 0.3 + 0.15 = 0.44999999999999996,
\* 0.3 + 0.6 = 0.8999999999999999
MatchConfidence(score) ==
    CASE score = 1 -> Confidence(45, -1)
      [] score = 2 -> Confidence(60, 0)
      [] score = 3 -> Confidence(75, 0)
      [] score = 4 -> Confidence(90, -1)
      [] OTHER -> Confidence(90, 0)

\* Mutant of DefaultConfidence: the base of the formula, 0.3, when nothing matches
DefaultConfidenceBase == Confidence(30, 0)

\* 'confidence': 0.5 of the default analysis
DefaultConfidence == Confidence(50, 0)

\* Mutant of ScoreBeats: a tie replaces the best match too
ScoreTies(score, best_match_score) == score >= best_match_score

\* if score > best_match_score
ScoreBeats(score, best_match_score) == score > best_match_score

\* the loop over self.query_templates.items()
TemplateLoop(q) ==
    LET L[i \in 0..Len(TemplateNames)] ==
          IF i = 0
          THEN [best_match_score |-> 0, best_match_type |-> "address_exploration",
                keywords |-> <<>>, confidence |-> DefaultConfidence]
          ELSE LET score == TemplateScore(TemplateNames[i], q)
               IN IF ScoreBeats(score, L[i-1].best_match_score)
                  THEN [best_match_score |-> score, best_match_type |-> TemplateNames[i],
                        keywords |-> MatchedKeywords(TemplateNames[i], q),
                        confidence |-> MatchConfidence(score)]
                  ELSE L[i-1]
    IN L[Len(TemplateNames)]

\* int() on the digit words of the model
IntOf(w) == CASE w = "250" -> 250 [] w = "7" -> 7 [] OTHER -> 0
IsDigits(w) == w \in {"250", "7"}

\* re.findall(r'\d+', query): the digit runs, in order (digits occur only as whole words)
Numbers(words) == SelectSeq(words, IsDigits)

LimitCap == 100

\* Mutant of CapLimit: the literal is taken as it is
TakeLiteral(n) == n

\* min(int(numbers[0]), 100)
CapLimit(n) == Min(n, LimitCap)

ParseNaturalLanguageQuery(words) ==
    LET q == QueryLower(words)
        best == TemplateLoop(q)
        numbers == Numbers(words)
    IN [type |-> best.best_match_type,
        keywords |-> best.keywords,
        context_filters |->
            (IF Contains(q, "overworld") THEN <<"a.context LIKE '%overworld%'">> ELSE <<>>)
            \o (IF Contains(q, "battle") THEN <<"a.context LIKE '%battle%'">> ELSE <<>>),
        description_filters |->
            (IF Contains(q, "enemy") THEN <<"a.description LIKE '%enemy%'">> ELSE <<>>)
            \o (IF Contains(q, "player") THEN <<"a.description LIKE '%player%'">> ELSE <<>>),
        parameters |-> IF numbers # <<>> THEN <<CapLimit(IntOf(numbers[1]))>> ELSE <<>>,
        confidence |-> best.confidence]

(***************************************************************************)
(* The query templates and generate_sql_query.  A query is its text as a   *)
(* sequence of tokens (keywords, parentheses, predicates) together with    *)
(* the parameters str.format() puts into the {min_changes}, {min_frequency}*)
(* and {limit} places.                                                     *)
(***************************************************************************)
CtxLike(p) == "a.context LIKE '%" \o p \o "%'"
DescLike(p) == "a.description LIKE '%" \o p \o "%'"

JoinSession == "x.session_uuid = a.session_uuid"
JoinFrameSet == "x.frame_set_id = a.frame_set_id"
ValueChanged == "ABS(CAST(mc.curr_val as INTEGER) - CAST(mc.prev_val as INTEGER)) > 0"
ValueIncreased == "CAST(mc.curr_val as INTEGER) > CAST(mc.prev_val as INTEGER)"
ButtonsPresent == <<"fs.buttons IS NOT NULL", "fs.buttons != '[]'", "fs.buttons != 'null'",
                    "fs.buttons != ''">>

\* p1 OR p2 OR ... as tokens
RECURSIVE OrList(_)
OrList(ps) == IF Len(ps) = 1 THEN ps ELSE <<ps[1], "OR">> \o OrList(Tail(ps))

\* p1 AND p2 AND ... as tokens
RECURSIVE AndList(_)
AndList(ps) == IF Len(ps) = 1 THEN ps ELSE <<ps[1], "AND">> \o AndList(Tail(ps))

Paren(tokens) == <<"(">> \o tokens \o <<")">>

\* SELECT ... FROM ... JOIN annotations a ON ... AND ...
FromJoin(table) == <<"SELECT", "FROM " \o table, "JOIN annotations a ON",
                     JoinSession, "AND", JoinFrameSet>>

TemplateWhere(t) ==
    CASE t = "battle_addresses" ->
            <<"WHERE">> \o OrList(<<CtxLike("battle"), CtxLike("combat"), CtxLike("fight"),
                                    DescLike("battle"), DescLike("attack"), DescLike("enemy")>>)
      [] t = "health_addresses" ->
            <<"WHERE">>
            \o Paren(OrList(<<DescLike("health"), DescLike("HP"), DescLike("damage"),
                              DescLike("hurt"), DescLike("enemy"), DescLike("player"),
                              DescLike("life"), DescLike("wounded")>>))
            \o <<"AND", ValueChanged>>
      [] t = "movement_buttons" ->
            <<"WHERE">>
            \o Paren(OrList(<<CtxLike("overworld"), CtxLike("field"), CtxLike("world")>>))
            \o <<"AND">> \o AndList(ButtonsPresent) \o <<"AND">>
            \o Paren(OrList(<<DescLike("mov"), DescLike("walk"), DescLike("run"),
                              DescLike("direction"), DescLike("up"), DescLike("down"),
                              DescLike("left"), DescLike("right")>>))
      [] t = "experience_addresses" ->
            <<"WHERE">>
            \o Paren(OrList(<<DescLike("experience"), DescLike("XP"), DescLike("medal"),
                              DescLike("points"), DescLike("level"), DescLike("gain"),
                              DescLike("reward"), DescLike("earned")>>))
            \o <<"AND", ValueIncreased>>
      [] t = "address_exploration" -> <<>>

TemplateTail(t) ==
    CASE t = "battle_addresses" -> <<"GROUP BY", "mc.address", "HAVING", "{min_changes}",
                                     "ORDER BY", "LIMIT", "{limit}">>
      [] t = "health_addresses" -> <<"GROUP BY", "mc.address", "HAVING", "{min_changes}",
                                     "ORDER BY", "LIMIT", "{limit}">>
      [] t = "movement_buttons" -> <<"GROUP BY", "fs.buttons", "HAVING", "{min_frequency}",
                                     "ORDER BY", "LIMIT", "{limit}">>
      [] t = "experience_addresses" -> <<"GROUP BY", "mc.address", "ORDER BY", "LIMIT", "{limit}">>
      [] t = "address_exploration" -> <<"GROUP BY", "mc.address", "HAVING", "{min_changes}",
                                        "ORDER BY", "LIMIT", "{limit}">>

\* self.query_templates[t]['template']
TemplateText(t) ==
    FromJoin(IF t = "movement_buttons" THEN "frame_sets fs" ELSE "memory_changes mc")
      \o TemplateWhere(t) \o TemplateTail(t)

NoParam == <<>>

\* self.query_templates[t]['default_params']
DefaultParams(t) ==
    CASE t = "battle_addresses" -> [min_changes |-> <<3>>, min_frequency |-> NoParam, limit |-> <<25>>]
      [] t = "health_addresses" -> [min_changes |-> <<2>>, min_frequency |-> NoParam, limit |-> <<30>>]
      [] t = "movement_buttons" -> [min_changes |-> NoParam, min_frequency |-> <<2>>, limit |-> <<20>>]
      [] t = "experience_addresses" -> [min_changes |-> NoParam, min_frequency |-> NoParam, limit |-> <<30>>]
      [] t = "address_exploration" -> [min_changes |-> <<5>>, min_frequency |-> NoParam, limit |-> <<30>>]

\* index of the first token equal to tok, 0 when there is none (str.find)
FirstIndex(tokens, tok) ==
    LET at == {i \in 1..Len(tokens) : tokens[i] = tok}
    IN IF at = {} THEN 0 ELSE SetMin(at)

\* template.replace("GROUP BY", where_addition + "\n GROUP BY", 1)
InsertBeforeGroupBy(tokens, addition) ==
    LET g == FirstIndex(tokens, "GROUP BY")
    IN IF g = 0 THEN tokens
       ELSE SubSeq(tokens, 1, g - 1) \o addition \o SubSeq(tokens, g, Len(tokens))

\* " AND " + " AND ".join(additional_where)
WhereAddition(additional_where) == <<"AND">> \o AndList(additional_where)

\* generate_sql_query (the selected type is always a registered template)
GenerateSqlQuery(analysis) ==
    LET template == TemplateText(analysis.type)
        defaults == DefaultParams(analysis.type)
        additional_where == analysis.description_filters \o analysis.context_filters
    IN [text |-> IF additional_where # <<>>
                 THEN InsertBeforeGroupBy(template, WhereAddition(additional_where))
                 ELSE template,
        params |-> IF analysis.parameters # <<>>
                   THEN [defaults EXCEPT !.limit = analysis.parameters]
                   ELSE defaults]

(***************************************************************************)
(* execute_query: SQLite's reading of the generated text.  AND binds       *)
(* tighter than OR; the condition of the join is what stands between ON    *)
(* and WHERE (or GROUP BY), the WHERE condition what stands between WHERE  *)
(* and GROUP BY.  A database row is a joined (change, annotation) pair,    *)
(* given by the predicates that hold of it, its GROUP BY key and the       *)
(* number of identical pairs.                                              *)
(***************************************************************************)
Depth(tokens, i) ==
    Cardinality({j \in 1..(i-1) : tokens[j] = "("}) - Cardinality({j \in 1..(i-1) : tokens[j] = ")"})

\* the pieces of tokens between the occurrences of sep outside parentheses
SplitTop(tokens, sep) ==
    LET cuts == SortedSeq({i \in 1..Len(tokens) : tokens[i] = sep /\ Depth(tokens, i) = 0})
    IN [k \in 1..(Len(cuts) + 1) |->
          SubSeq(tokens,
                 IF k = 1 THEN 1 ELSE cuts[k-1] + 1,
                 IF k = Len(cuts) + 1 THEN Len(tokens) ELSE cuts[k] - 1)]

RECURSIVE EvalCond(_, _)
EvalCond(tokens, holds) ==
    LET ors == SplitTop(tokens, "OR")
        ands == SplitTop(tokens, "AND")
    IN IF Len(ors) > 1 THEN \E k \in 1..Len(ors) : EvalCond(ors[k], holds)
       ELSE IF Len(ands) > 1 THEN \A k \in 1..Len(ands) : EvalCond(ands[k], holds)
       ELSE IF tokens[1] = "(" THEN EvalCond(SubSeq(tokens, 2, Len(tokens) - 1), holds)
       ELSE tokens[1] \in holds

OnCondition(text) ==
    LET o == FirstIndex(text, "JOIN annotations a ON")
        w == FirstIndex(text, "WHERE")
        g == FirstIndex(text, "GROUP BY")
    IN SubSeq(text, o + 1, (IF w # 0 THEN w ELSE g) - 1)

WhereCondition(text) ==
    LET w == FirstIndex(text, "WHERE")
        g == FirstIndex(text, "GROUP BY")
    IN IF w = 0 THEN <<>> ELSE SubSeq(text, w + 1, g - 1)

\* the rows the FROM ... JOIN ... ON ... WHERE ... part lets through
Selected(text, row) ==
    /\ EvalCond(OnCondition(text), row.holds)
    /\ WhereCondition(text) # <<>> => EvalCond(WhereCondition(text), row.holds)

\* the value str.format() puts in the HAVING clause; none when the query has no HAVING
HavingParam(sql) ==
    LET h == FirstIndex(sql.text, "HAVING")
    IN IF h = 0 THEN <<0>>
       ELSE IF sql.text[h + 1] = "{min_frequency}" THEN sql.params.min_frequency
       ELSE sql.params.min_changes

\* str.format() raises KeyError for a place without a parameter; the template is then sent as is
FormatOk(sql) == HavingParam(sql) # NoParam /\ sql.params.limit # NoParam

Joined == {JoinSession, JoinFrameSet}

DbRow(group, holds) == [group |-> group, holds |-> Joined \cup holds, count |-> 5]

SampleRows ==
    << DbRow("0300AAA1", {CtxLike("battle")}),
       DbRow("0300AAA2", {CtxLike("battle"), DescLike("enemy"), ValueChanged}),
       DbRow("0300AAA3", {DescLike("enemy"), DescLike("experience"), ValueChanged, ValueIncreased}),
       DbRow("[Up]", {CtxLike("overworld"), DescLike("walk")} \cup Range(ButtonsPresent)),
       DbRow("0300AAA5", {DescLike("player"), DescLike("health"), ValueChanged}),
       DbRow("0300AAA6", {}) >>

NoError == ""

\* the database file at db_path
DbStates ==
    { [error |-> "no such table: memory_changes", rows |-> <<>>],
      [error |-> "unable to open database file", rows |-> <<>>],
      [error |-> NoError, rows |-> <<>>],
      [error |-> NoError, rows |-> SampleRows] }

\* cursor.execute(sql_query); rows = cursor.fetchall()
FetchAll(sql, db) ==
    LET groups == SelectSeq(db.rows, LAMBDA r : Selected(sql.text, r) /\ r.count >= HavingParam(sql)[1])
    IN SubSeq(groups, 1, Min(Len(groups), sql.params.limit[1]))

ExecError(sql, db) ==
    IF db.error # NoError THEN db.error
    ELSE IF ~FormatOk(sql) THEN "unrecognized token: \"{\""
    ELSE NoError

\* Mutant of Caught: only errors of cursor.execute are caught, not those of sqlite3.connect
CaughtOnExecute(error) == error # "unable to open database file"

\* except Exception as e: around connect, execute and fetchall
Caught(error) == TRUE

Explanation(kind, detail, count, confidence, slow) ==
    [kind |-> kind, detail |-> detail, count |-> count, confidence |-> confidence, slow |-> slow]

execute_query(sql, db, slow) ==
    IF ExecError(sql, db) = NoError
    THEN LET results == FetchAll(sql, db)
         IN [query |-> <<>>, results |-> results,
             explanation |-> Explanation("Found results", "", Len(results), Confidence(0, 0), FALSE),
             confidence |-> Confidence(85, 0), slow |-> slow, sql_query |-> sql]
    ELSE [query |-> <<>>, results |-> <<>>,
          explanation |-> Explanation("Query failed", ExecError(sql, db), 0, Confidence(0, 0), FALSE),
          confidence |-> Confidence(0, 0), slow |-> slow, sql_query |-> sql]

\* _generate_explanation
GenerateExplanation(user_query, analysis, result) ==
    IF result.results = <<>>
    THEN Explanation("No results found. Try different keywords or rephrasing your question.",
                     Join(user_query), 0, Confidence(0, 0), FALSE)
    ELSE Explanation("Found results of " \o analysis.type, "", Len(result.results),
                     analysis.confidence, result.slow)

\* process_natural_language_query
ProcessNaturalLanguageQuery(user_query, db, slow) ==
    LET analysis == ParseNaturalLanguageQuery(user_query)
        sql_query == GenerateSqlQuery(analysis)
        executed == execute_query(sql_query, db, slow)
        result == [executed EXCEPT !.query = user_query, !.confidence = analysis.confidence]
    IN [result EXCEPT !.explanation = GenerateExplanation(user_query, analysis, result)]

\* questions checked beyond the bounded ones
NamedQuestions ==
    { <<"Which", "addresses", "are", "likely", "used", "in", "the", "battle", "context?">>,
      <<"Enemy", "health", "hp">> }

NlqIdle ==
    /\ nlq_query = <<>>
    /\ nlq_pc = "idle"
    /\ nlq_analysis = <<>>
    /\ nlq_db = [error |-> NoError, rows |-> <<>>]
    /\ nlq_result = <<>>

NlqInit ==
    /\ nlq_query \in SeqsUpTo(Words, MaxWords) \cup NamedQuestions
    /\ nlq_pc = "call"
    /\ nlq_analysis = <<>>
    /\ nlq_db \in DbStates
    /\ nlq_result = <<>>

parse_natural_language_query ==
    /\ nlq_pc = "call"
    /\ nlq_analysis' = <<ParseNaturalLanguageQuery(nlq_query)>>
    /\ nlq_pc' = "done"
    /\ UNCHANGED <<nlq_query, nlq_db, nlq_result>>

process_natural_language_query(slow) ==
    /\ nlq_pc = "call"
    /\ nlq_analysis' = <<ParseNaturalLanguageQuery(nlq_query)>>
    /\ LET error == ExecError(GenerateSqlQuery(ParseNaturalLanguageQuery(nlq_query)), nlq_db)
       IN IF error # NoError /\ ~Caught(error)
          THEN nlq_result' = <<>> /\ nlq_pc' = "raised"
          ELSE /\ nlq_result' = <<ProcessNaturalLanguageQuery(nlq_query, nlq_db, slow)>>
               /\ nlq_pc' = "processed"
    /\ UNCHANGED <<nlq_query, nlq_db>>

\* C10: for every question the selected template is a registered one: the earliest-registered
\* among those with the highest score (keyword hits plus the phrase bonus) when that score is
\* above zero, and otherwise address_exploration with confidence 0.5
C10_TemplateSelection ==
    nlq_pc = "done" =>
        LET q == QueryLower(nlq_query)
            a == nlq_analysis[1]
            idx == 1..Len(TemplateNames)
            top == SetMax({TemplateScore(TemplateNames[i], q) : i \in idx})
            first == SetMin({i \in idx : TemplateScore(TemplateNames[i], q) = top})
        IN /\ a.type \in Range(TemplateNames)
           /\ top = 0 => a.type = "address_exploration" /\ a.confidence = DefaultConfidence
           /\ top > 0 => a.type = TemplateNames[first]

\* "what battle": battle_addresses and address_exploration both score 1, the earlier one wins
C10_Witness ==
    /\ nlq_pc = "done"
    /\ nlq_query = <<"what", "battle">>
    /\ TemplateScore("battle_addresses", QueryLower(nlq_query)) = 1
    /\ TemplateScore("address_exploration", QueryLower(nlq_query)) = 1
    /\ nlq_analysis[1].type = "battle_addresses"

BattleContextQuestion ==
    <<"Which", "addresses", "are", "likely", "used", "in", "the", "battle", "context?">>

\* the highest score any template reaches on the question
TopScore(words) ==
    SetMax({TemplateScore(TemplateNames[i], QueryLower(words)) : i \in 1..Len(TemplateNames)})

\* C11: when the winning score s is at least 1 the confidence of the analysis (and of the
\* returned result) is min(0.9, 0.3 + 0.15*s), as a double: the hundredths agree and the
\* double is at most one rounding step below; the battle-context question selects
\* battle_addresses with confidence above 0.6 and its query filters on battle/combat/fight
C11_ConfidenceFormula ==
    nlq_analysis # <<>> =>
        LET a == nlq_analysis[1]
            s == TopScore(nlq_query)
        IN /\ s >= 1 =>
                /\ a.confidence.hundredths = Min(90, 30 + 15 * s)
                /\ a.confidence.ulps \in {-1, 0}
                /\ nlq_result # <<>> => nlq_result[1].confidence = a.confidence
           /\ nlq_query = BattleContextQuestion =>
                /\ a.type = "battle_addresses"
                /\ a.confidence.hundredths > 60
                /\ nlq_result # <<>> =>
                      {CtxLike("battle"), CtxLike("combat"), CtxLike("fight")}
                         \subseteq Range(WhereCondition(nlq_result[1].sql_query.text))

\* the battle-context question processed: score 3 (keyword battle, phrase battle context)
C11_Witness ==
    /\ nlq_pc = "processed"
    /\ nlq_query = BattleContextQuestion
    /\ TopScore(nlq_query) = 3
    /\ nlq_result[1].confidence = Confidence(75, 0)
    /\ nlq_db.rows # <<>>
    /\ nlq_result[1].results # <<>>

\* C12: when execution of the generated query fails, process_natural_language_query does not
\* raise: it returns a result whose result list is empty
C12_FailureReturnsEmptyResult ==
    nlq_pc \in {"processed", "raised"} /\ nlq_db.error # NoError =>
        /\ nlq_pc = "processed"
        /\ nlq_result # <<>>
        /\ nlq_result[1].results = <<>>

\* a question processed against a database that cannot be opened
C12_Witness ==
    /\ nlq_pc = "processed"
    /\ nlq_db.error = "unable to open database file"
    /\ nlq_query = <<"what", "battle">>
    /\ nlq_result[1].results = <<>>
    /\ nlq_result[1].query = nlq_query

\* C13: when execution of the generated query fails, the returned response has confidence 0.0
\* and its explanation is the error text of the failure
C13_FailureResponse ==
    nlq_pc = "processed" /\ nlq_db.error # NoError =>
        /\ nlq_result[1].confidence = Confidence(0, 0)
        /\ nlq_result[1].explanation.kind = "Query failed"
        /\ nlq_result[1].explanation.detail = nlq_db.error

\* the template's own WHERE condition, before anything is appended
OriginalCondition(t) == Tail(TemplateWhere(t))

\* C14: every row that contributes to the results of the generated query satisfies each filter
\* predicate extracted from the question and the selected template's original condition
C14_FiltersConjoined ==
    nlq_pc = "processed" =>
        LET a == nlq_analysis[1]
            filters == Range(a.description_filters) \cup Range(a.context_filters)
            results == nlq_result[1].results
        IN \A k \in 1..Len(results) :
              /\ filters \subseteq results[k].holds
              /\ TemplateWhere(a.type) # <<>> => EvalCond(OriginalCondition(a.type), results[k].holds)

\* C15: the LIMIT of every generated query is min(first integer literal of the question, 100),
\* or the selected template's default limit when the question has no integer literal; it is at
\* most 100 and no more rows than that are returned
C15_LimitAtMost100 ==
    nlq_pc = "processed" =>
        LET sql == nlq_result[1].sql_query
            literals == {i \in 1..Len(nlq_query) : nlq_query[i] \in {"250", "7"}}
            first == nlq_query[SetMin(literals)]
            value == IF first = "250" THEN 250 ELSE 7
        IN /\ sql.params.limit # NoParam
           /\ sql.params.limit[1] <= 100
           /\ literals # {} => sql.params.limit[1] = (IF value < 100 THEN value ELSE 100)
           /\ literals = {} => sql.params.limit = DefaultParams(nlq_analysis[1].type).limit
           /\ Len(nlq_result[1].results) <= sql.params.limit[1]
           /\ FirstIndex(sql.text, "LIMIT") # 0

\* "250 battle": the literal 250 is capped to 100
C15_Witness ==
    /\ nlq_pc = "processed"
    /\ nlq_query = <<"250", "battle">>
    /\ nlq_result[1].sql_query.params.limit = <<100>>
    /\ nlq_analysis[1].type = "battle_addresses"

(***************************************************************************)
(* H.  TrainingDataIngestor.process_directory as a sequential program      *)
(*     over the store of section A.  Every statement that reaches the      *)
(*     database is a step of its own; the connection runs with the sqlite3 *)
(*     module's implicit transactions, so a DELETE or INSERT opens a       *)
(*     transaction that lasts until the next conn.commit().  The run may   *)
(*     stop between any two steps (process killed, power lost): what was   *)
(*     not committed is rolled back.                                       *)
(***************************************************************************)
MaxDirs == 2                   \* most frame-set directories in the session directory

\* JSON type of the tags field of annotations.json
TagsTypes == {"str", "list"}

\* sqlite3 binds None, int, float, str and bytes; any other type raises at execute()
Bindable(tags) == tags # "list"

\* one numbered directory of the session directory
FrameDirs ==
    [frame_set_id : FrameSetIds, has_event : BOOLEAN, has_annotation : BOOLEAN,
     memory_changes : MemoryChangeLists, tags : TagsTypes]

\* the directories that differ only in files the loop never opens are the same input
FrameDirInputs ==
    {d \in FrameDirs :
        /\ (~d.has_annotation => d.has_event /\ d.memory_changes = <<>> /\ d.tags = "str")
        /\ (~d.has_event => d.memory_changes = <<>> /\ d.tags = "str")}

\* session_dir.iterdir(): the directories in arbitrary order, names distinct
SessionDirs ==
    {dir \in SeqsUpTo(FrameDirInputs, MaxDirs) :
        \A i, j \in DOMAIN dir : i # j => dir[i].frame_set_id # dir[j].frame_set_id}

\* json.load(event_file) and json.load(annotation_file) of a directory
EventJson(d) ==
    [frame_set_id |-> d.frame_set_id, timestamp |-> 200,
     buttons |-> <<"A", "None">>, frames_in_set |-> <<1, 2>>]
AnnotationJson(d) == [context |-> "battle", scene |-> "gym", tags |-> d.tags]

\* "Only process directories that have annotations", then the event.json test
Skipped(d) == ~d.has_annotation \/ ~d.has_event

\* the store an earlier, completed run over the same session left behind:
\* nothing, or both frame sets with an older event, memory-change list and annotation
OldChangeLists == {<<>>, <<"c2">>, <<"c2", "c1">>}
EarlierEvent(f) ==
    [frame_set_id |-> f, timestamp |-> 100, buttons |-> <<"A", "None">>, frames_in_set |-> <<1, 2>>]
EarlierAnnotation == [context |-> "menu", scene |-> "gym"]
EarlierStores ==
    {[sessions |-> {}, frame_sets |-> <<>>, memory_changes |-> <<>>, annotations |-> <<>>]}
    \cup
    {[sessions |-> {"s1"},
      frame_sets |-> <<FrameSetRow("s1", EarlierEvent(1)), FrameSetRow("s1", EarlierEvent(2))>>,
      memory_changes |-> MemoryChangeRows("s1", 1, old) \o MemoryChangeRows("s1", 2, old),
      annotations |-> <<AnnotationRow("s1", 1, EarlierAnnotation), AnnotationRow("s1", 2, EarlierAnnotation)>>]
       : old \in OldChangeLists}

\* no transaction open: the connection is in autocommit state
NoTxn == [open |-> FALSE, memory_changes |-> <<>>]

\* Mutant of Durable: every statement is committed as it executes
DurableDirty(committed, txn) == IF txn.open THEN txn.memory_changes ELSE committed

\* what memory_changes holds once the run has stopped: the open transaction is rolled back
Durable(committed, txn) == committed

ProcIdle ==
    /\ proc_dir = <<>>
    /\ proc_pc = [i |-> 0, step |-> "idle", k |-> 0]
    /\ proc_status = "idle"
    /\ proc_txn = NoTxn
    /\ proc_old = [sessions |-> {}, frame_sets |-> <<>>, memory_changes |-> <<>>, annotations |-> <<>>]

ProcInit ==
    /\ proc_dir \in SessionDirs
    /\ proc_pc = [i |-> 0, step |-> "session", k |-> 0]
    /\ proc_status = "running"
    /\ proc_txn = NoTxn
    /\ \E store \in EarlierStores :
          /\ sessions = store.sessions
          /\ frame_sets = store.frame_sets
          /\ memory_changes = store.memory_changes
          /\ annotations = store.annotations
          /\ proc_old = store
    /\ supplied = [s \in SessionUuids |-> [f \in FrameSetIds |->
                     [event |-> NoneSupplied, changes |-> NoneSupplied, annotation |-> NoneSupplied]]]

Running(step) == proc_status = "running" /\ proc_pc.step = step
CurrentDir == proc_dir[proc_pc.i]
AtStep(i, step, k) == [i |-> i, step |-> step, k |-> k]

\* self.insert_session(session_uuid), then the loop is entered
process_insert_session ==
    /\ Running("session")
    /\ sessions' = sessions \cup {"s1"}
    /\ proc_pc' = AtStep(1, "dir", 0)
    /\ UNCHANGED <<frame_sets, memory_changes, annotations, supplied,
                   proc_dir, proc_status, proc_txn, proc_old>>

\* a directory without annotations.json or without event.json: continue
process_skip ==
    /\ Running("dir")
    /\ proc_pc.i <= Len(proc_dir)
    /\ Skipped(CurrentDir)
    /\ proc_pc' = AtStep(proc_pc.i + 1, "dir", 0)
    /\ UNCHANGED <<ingestVars, proc_dir, proc_status, proc_txn, proc_old>>

\* self.insert_frame_set(session_uuid, event_data): INSERT OR REPLACE, commit
process_insert_frame_set ==
    /\ Running("dir")
    /\ proc_pc.i <= Len(proc_dir)
    /\ ~Skipped(CurrentDir)
    /\ frame_sets' = InsertOrReplace(frame_sets, FrameSetRow("s1", EventJson(CurrentDir)))
    /\ proc_pc' = AtStep(proc_pc.i, "delete", 0)
    /\ UNCHANGED <<sessions, memory_changes, annotations, supplied,
                   proc_dir, proc_status, proc_txn, proc_old>>

\* insert_memory_changes: the DELETE, which opens the transaction
process_delete_memory_changes ==
    /\ Running("delete")
    /\ proc_txn' = [open |-> TRUE,
                    memory_changes |-> DeleteMemoryChanges(memory_changes, "s1", CurrentDir.frame_set_id)]
    /\ proc_pc' = AtStep(proc_pc.i, "insert", 0)
    /\ UNCHANGED <<ingestVars, proc_dir, proc_status, proc_old>>

\* insert_memory_changes: one round of the INSERT loop, inside the transaction
process_insert_memory_change ==
    /\ Running("insert")
    /\ proc_pc.k < Len(CurrentDir.memory_changes)
    /\ proc_txn' = [proc_txn EXCEPT !.memory_changes =
                      Append(@, MemoryChangeRows("s1", CurrentDir.frame_set_id,
                                                 CurrentDir.memory_changes)[proc_pc.k + 1])]
    /\ proc_pc' = AtStep(proc_pc.i, "insert", proc_pc.k + 1)
    /\ UNCHANGED <<ingestVars, proc_dir, proc_status, proc_old>>

\* insert_memory_changes: self.conn.commit() after the loop
process_commit_memory_changes ==
    /\ Running("insert")
    /\ proc_pc.k = Len(CurrentDir.memory_changes)
    /\ memory_changes' = proc_txn.memory_changes
    /\ proc_txn' = NoTxn
    /\ proc_pc' = AtStep(proc_pc.i, "annotation", 0)
    /\ UNCHANGED <<sessions, frame_sets, annotations, supplied, proc_dir, proc_status, proc_old>>

\* self.insert_annotation(...) with bindable parameters: INSERT OR REPLACE, commit;
\* processed_count += 1 and the loop goes on
process_insert_annotation ==
    /\ Running("annotation")
    /\ Bindable(CurrentDir.tags)
    /\ annotations' = InsertOrReplace(annotations,
                         AnnotationRow("s1", CurrentDir.frame_set_id, AnnotationJson(CurrentDir)))
    /\ proc_pc' = AtStep(proc_pc.i + 1, "dir", 0)
    /\ UNCHANGED <<sessions, frame_sets, memory_changes, supplied,
                   proc_dir, proc_status, proc_txn, proc_old>>

\* self.insert_annotation(...) with a list for tags: execute() raises
\* sqlite3.ProgrammingError (InterfaceError before Python 3.11), which
\* "except (json.JSONDecodeError, KeyError)" does not catch: process_directory is left
process_insert_annotation_raises ==
    /\ Running("annotation")
    /\ ~Bindable(CurrentDir.tags)
    /\ proc_status' = "raised"
    /\ UNCHANGED <<ingestVars, proc_dir, proc_pc, proc_txn, proc_old>>

\* the loop is exhausted: "Successfully processed ..."
process_return ==
    /\ Running("dir")
    /\ proc_pc.i > Len(proc_dir)
    /\ proc_status' = "done"
    /\ UNCHANGED <<ingestVars, proc_dir, proc_pc, proc_txn, proc_old>>

\* the run stops where it is; the open transaction, if any, is rolled back
process_stops ==
    /\ proc_status = "running"
    /\ proc_status' = "stopped"
    /\ memory_changes' = Durable(memory_changes, proc_txn)
    /\ proc_txn' = NoTxn
    /\ UNCHANGED <<sessions, frame_sets, annotations, supplied, proc_dir, proc_pc, proc_old>>

\* the directories whose three inserts were all committed by this run
Completed == {j \in 1..Len(proc_dir) : j < proc_pc.i /\ ~Skipped(proc_dir[j])}

\* the directories the loop should ingest
Eligible == {j \in 1..Len(proc_dir) : ~Skipped(proc_dir[j])}

\* the rows process_directory writes for directory d
NewFrameSetRows(d) == <<FrameSetRow("s1", EventJson(d))>>
NewMemoryChangeRows(d) == MemoryChangeRows("s1", d.frame_set_id, d.memory_changes)
NewAnnotationRows(d) == <<AnnotationRow("s1", d.frame_set_id, AnnotationJson(d))>>

\* C16 (as stated): a run of process_directory is never left by an exception, and
\* when it has returned, every directory that has both files, whether its tags are
\* a string or a list of strings, has exactly one annotation row, the one of its
\* annotations.json.
C16_TagsListAccepted ==
    /\ proc_status # "raised"
    /\ proc_status = "done" =>
          \A j \in Eligible :
             RowsOf(annotations, "s1", proc_dir[j].frame_set_id) = NewAnnotationRows(proc_dir[j])

\* C17: wherever the run stops, every directory whose ingestion had completed has
\* its frame-set row, its whole memory-change list and its annotation row in the
\* store; every directory not yet reached has the earlier store's rows; and the
\* memory changes of every frame set, the one being ingested included, are either
\* the earlier store's list or the directory's list, whole.
C17_StopLeavesCompleteFrameSets ==
    proc_status = "stopped" =>
       /\ \A j \in Completed :
             LET d == proc_dir[j] IN
             /\ RowsOf(frame_sets, "s1", d.frame_set_id) = NewFrameSetRows(d)
             /\ RowsOf(memory_changes, "s1", d.frame_set_id) = NewMemoryChangeRows(d)
             /\ RowsOf(annotations, "s1", d.frame_set_id) = NewAnnotationRows(d)
       /\ \A j \in 1..Len(proc_dir) :
             LET d == proc_dir[j] IN
             /\ j > proc_pc.i =>
                   /\ RowsOf(frame_sets, "s1", d.frame_set_id) = RowsOf(proc_old.frame_sets, "s1", d.frame_set_id)
                   /\ RowsOf(memory_changes, "s1", d.frame_set_id) =
                         RowsOf(proc_old.memory_changes, "s1", d.frame_set_id)
                   /\ RowsOf(annotations, "s1", d.frame_set_id) = RowsOf(proc_old.annotations, "s1", d.frame_set_id)
             /\ RowsOf(memory_changes, "s1", d.frame_set_id) \in
                   {RowsOf(proc_old.memory_changes, "s1", d.frame_set_id), NewMemoryChangeRows(d)}

\* the run stopped inside the INSERT loop of its second directory, one of two rows
\* inserted, the first directory complete, the earlier store holding other rows
C17_Witness ==
    /\ proc_status = "stopped"
    /\ proc_pc = AtStep(2, "insert", 1)
    /\ Completed = {1}
    /\ Len(proc_dir[2].memory_changes) = 2
    /\ RowsOf(proc_old.memory_changes, "s1", proc_dir[2].frame_set_id) # <<>>
    /\ RowsOf(proc_old.memory_changes, "s1", proc_dir[2].frame_set_id) # NewMemoryChangeRows(proc_dir[2])

\* C18: the top-level timestamp of every frame-set record written by a pass is the
\* timestamp of a row of that frame set whose frame number is the highest of the
\* frame set, in whatever order the rows came.
C18_TimestampOfFinalFrame ==
    agg_status = "done" =>
       \A d \in valid_frame_set_ids(agg_log) :
          LET rows == RowsOfSet(agg_log, d)
          IN \E i \in DOMAIN rows :
                /\ agg_dirs[d][1].event.timestamp = rows[i].timestamp
                /\ \A j \in DOMAIN rows : rows[j].frame <= rows[i].frame

\* a pass over a log whose first row is of a later frame than its second row, both of
\* one frame set, with different timestamps
C18_Witness ==
    /\ agg_status = "done"
    /\ Len(agg_log) = 2
    /\ WellFormed(agg_log[1]) /\ WellFormed(agg_log[2])
    /\ agg_log[1].frame_set_id = agg_log[2].frame_set_id
    /\ agg_log[1].frame > agg_log[2].frame
    /\ agg_log[1].timestamp # agg_log[2].timestamp
    /\ agg_dirs[agg_log[1].frame_set_id][1].event.timestamp = agg_log[1].timestamp

\* C19 (as stated): in every frame-set record written by a pass, frames_in_set is
\* strictly ascending, buttons is as long as frames_in_set, and buttons[i] is the
\* mapped current key of a row of that frame set whose frame is frames_in_set[i].
C19_ButtonsAlignedWithFrames ==
    agg_status = "done" =>
       \A d \in valid_frame_set_ids(agg_log) :
          LET ev == agg_dirs[d][1].event
              rows == RowsOfSet(agg_log, d)
          IN /\ \A i, j \in DOMAIN ev.frames_in_set : i < j => ev.frames_in_set[i] < ev.frames_in_set[j]
             /\ Len(ev.buttons) = Len(ev.frames_in_set)
             /\ \A i \in DOMAIN ev.frames_in_set :
                   \E j \in DOMAIN rows :
                      /\ rows[j].frame = ev.frames_in_set[i]
                      /\ ev.buttons[i] = map_key_to_button(rows[j].current_key)

\* a key name: neither the 'None' marker nor blank
IsKeyName(key_str) == key_str # "None" /\ Strip(key_str) # ""

\* C20 (as stated): the button recorded for a frame is, when the frame's key name has
\* an entry in the reverse key mapping, the mapped button name, and otherwise the key
\* name as it stood in the log, unchanged.
C20_UnmappedKeyEmittedRaw ==
    agg_status = "done" =>
       \A d \in valid_frame_set_ids(agg_log) :
          LET ev == agg_dirs[d][1].event
          IN \A i \in DOMAIN ev.buttons :
                LET rows == SelectSeq(ParsedRows(agg_log), LAMBDA r : r.frame = ev.frames_in_set[i])
                    key_str == rows[Len(rows)].current_key
                IN IsKeyName(key_str) =>
                      ev.buttons[i] = (IF Lower(Strip(key_str)) \in DOMAIN KeyMapRev
                                       THEN KeyMapRev[Lower(Strip(key_str))]
                                       ELSE key_str)

\* C21 (as stated): no pass is ended by a bad input row; after a pass every row of the
\* log that can be parsed has its frame and its memory change in the event.json of its
\* frame set, whatever other rows (wrong column count, header line) the log holds.
C21_BadRowNeverAborts ==
    agg_status # "idle" =>
       /\ agg_status = "done"
       /\ \A i \in 1..Len(agg_log) :
             Parsable(agg_log[i]) =>
                /\ agg_dirs[agg_log[i].frame_set_id] # NoDir
                /\ \E k \in DOMAIN agg_dirs[agg_log[i].frame_set_id][1].event.memory_changes :
                      agg_dirs[agg_log[i].frame_set_id][1].event.memory_changes[k]
                         = MemChangeOf(EventData(agg_log[i]))

\* C22 (as stated): once normalize_frequencies has run over a session that has memory
\* changes, the strategy that was used can be told from what the store holds (the
\* freq and freq_normalized columns, all of them numbers in [0,1]): no other strategy
\* would have left the same rows.
C22_StrategyReadableFromStore ==
    (norm_pc = "done" /\ norm_freqs # <<>> /\ \A i \in DOMAIN norm_values : InUnitInterval(norm_values[i])) =>
       \A other \in FreqMethods \ {norm_method} :
          NormalizeFrequencies(norm_freqs, other) # norm_values

(***************************************************************************)
(* I.  GBATrainingDatabase.load_data_from_directory: the training database *)
(*     of prepare_database_training_data.py.  Tables are sets of rows with *)
(*     their integer primary keys; an AUTOINCREMENT key is one more than   *)
(*     the largest key the table ever held (sqlite_sequence).  The         *)
(*     connection does not enable foreign-key enforcement.                 *)
(***************************************************************************)
MaxLoads == 2                  \* most calls of load_data_from_directory in a behaviour

SessionNames == {"sess", "other"}
FrameNumbers == {1, 2}

\* a numbered directory: absent, or present with or without event.json / annotations.json
NoFrameDir == [present |-> FALSE, has_event |-> FALSE, has_annotation |-> FALSE, memory_changes |-> <<>>]
LoadFrameDirs ==
    {NoFrameDir}
    \cup {[present |-> TRUE, has_event |-> FALSE, has_annotation |-> FALSE, memory_changes |-> <<>>]}
    \cup [present : {TRUE}, has_event : {TRUE}, has_annotation : BOOLEAN,
          memory_changes : {<<>>, <<"c1">>, <<"c1", "c2">>}]

LoadDirs == [FrameNumbers -> LoadFrameDirs]

EmptyDb ==
    [sessions |-> {}, frames |-> {}, memory_changes |-> {}, annotations |-> {},
     seq |-> [sessions |-> 0, frames |-> 0, memory_changes |-> 0, annotations |-> 0]]

\* INSERT OR REPLACE INTO sessions (name) VALUES (?) under UNIQUE(name): the row of
\* that name is deleted and a row with a fresh id is inserted; session_id =
\* cursor.lastrowid (rowcount is 1, so the SELECT branch is not taken)
SessionUpsert(db, name) ==
    [db |-> [db EXCEPT !.sessions = {r \in @ : r.name # name}
                                      \cup {[id |-> db.seq.sessions + 1, name |-> name, total_frames |-> 0]},
                       !.seq.sessions = @ + 1],
     session_id |-> db.seq.sessions + 1]

\* INSERT OR REPLACE INTO frames under UNIQUE(session_id, frame_number); frame_id =
\* cursor.lastrowid (rowcount is 1, so the DELETE FROM memory_changes is not reached)
FrameUpsert(db, session_id, n, d) ==
    [db EXCEPT !.frames = {r \in @ : ~(r.session_id = session_id /\ r.frame_number = n)}
                             \cup {[id |-> db.seq.frames + 1, session_id |-> session_id,
                                    frame_number |-> n, has_annotation |-> d.has_annotation]},
               !.seq.frames = @ + 1]

\* the INSERT loop over event_data.get('memory_changes', [])
InsertChanges(db, frame_id, changes) ==
    [db EXCEPT !.memory_changes = @ \cup {[id |-> db.seq.memory_changes + i, frame_id |-> frame_id,
                                           change |-> changes[i]] : i \in 1..Len(changes)},
               !.seq.memory_changes = @ + Len(changes)]

\* INSERT OR REPLACE INTO annotations under UNIQUE(frame_id)
AnnotationUpsert(db, frame_id) ==
    [db EXCEPT !.annotations = {r \in @ : r.frame_id # frame_id}
                                  \cup {[id |-> db.seq.annotations + 1, frame_id |-> frame_id,
                                         context |-> "battle"]},
               !.seq.annotations = @ + 1]

\* one round of the loop over the numbered directories
LoadFrame(db, session_id, n, d) ==
    IF ~d.present \/ ~d.has_event THEN db
    ELSE LET framed == FrameUpsert(db, session_id, n, d)
             changed == InsertChanges(framed, framed.seq.frames, d.memory_changes)
         IN IF d.has_annotation THEN AnnotationUpsert(changed, framed.seq.frames) ELSE changed

\* frame_dirs.sort(key=int), then the loop
RECURSIVE LoadFrames(_, _, _, _)
LoadFrames(db, session_id, dir, n) ==
    IF n \notin DOMAIN dir THEN db
    ELSE LoadFrames(LoadFrame(db, session_id, n, dir[n]), session_id, dir, n + 1)

FramesLoaded(dir) == Cardinality({n \in DOMAIN dir : dir[n].present /\ dir[n].has_event})

\* _load_frames_from_session_directory, up to its commit
LoadFramesFromSessionDirectory(db, dir, name) ==
    LET upsert == SessionUpsert(db, name)
        loaded == LoadFrames(upsert.db, upsert.session_id, dir, 1)
    IN [loaded EXCEPT !.sessions =
           {IF r.id = upsert.session_id THEN [r EXCEPT !.total_frames = FramesLoaded(dir)] ELSE r : r \in @}]

LoadIdle ==
    /\ load_dir = [n \in FrameNumbers |-> NoFrameDir]
    /\ load_db = EmptyDb
    /\ load_names = <<>>

LoadInit ==
    /\ load_dir \in LoadDirs
    /\ load_db = EmptyDb
    /\ load_names = <<>>

load_data_from_directory(name) ==
    /\ Len(load_names) < MaxLoads
    /\ load_db' = LoadFramesFromSessionDirectory(load_db, load_dir, name)
    /\ load_names' = Append(load_names, name)
    /\ UNCHANGED load_dir

\* C28 (as stated): after the session directory was loaded one or more times under one
\* session name, the store holds one frame row per frame directory with an event.json,
\* one copy of each of its memory changes and one annotation per annotated directory,
\* and every frame row refers to a session row.
C28_LoadTwiceIdempotent ==
    (load_names # <<>> /\ \A i \in DOMAIN load_names : load_names[i] = load_names[1]) =>
       LET once == LoadFramesFromSessionDirectory(EmptyDb, load_dir, load_names[1])
       IN /\ Cardinality(load_db.frames) = Cardinality(once.frames)
          /\ Cardinality(load_db.memory_changes) = Cardinality(once.memory_changes)
          /\ Cardinality(load_db.annotations) = Cardinality(once.annotations)
          /\ \A f \in load_db.frames : \E s \in load_db.sessions : s.id = f.session_id

(***************************************************************************)
(* J.  TrainingDataGenerator.get_training_data (generate_training_jsonl.py) *)
(*     over the store of section A                                         *)
(***************************************************************************)
\* annotations JOIN frame_sets ON session_uuid, frame_set_id WHERE a.session_uuid = ?:
\* the joined rows in the order the scan of annotations yields them (rowid order)
JoinedAnnotations(s) ==
    SelectSeq(annotations, LAMBDA a : a.session_uuid = s /\ RowsOf(frame_sets, s, a.frame_set_id) # <<>>)

\* Mutant of OrderByFrameSetId: no ORDER BY, the groups come in scan order
ScanOrder(rows) == [i \in 1..Len(rows) |-> rows[i].frame_set_id]

\* GROUP BY a.session_uuid, a.frame_set_id ORDER BY a.session_uuid, a.frame_set_id
OrderByFrameSetId(rows) == SortedSeq({rows[i].frame_set_id : i \in 1..Len(rows)})

\* the training records of one session, one per group
get_training_data(s) ==
    LET order == OrderByFrameSetId(JoinedAnnotations(s))
    IN [i \in 1..Len(order) |->
          [session_uuid |-> s,
           frame_set_id |-> order[i],
           context |-> RowsOf(annotations, s, order[i])[1].context,
           scene |-> RowsOf(annotations, s, order[i])[1].scene,
           timestamp |-> RowsOf(frame_sets, s, order[i])[1].timestamp,
           memory_changes |-> [k \in 1..Len(RowsOf(memory_changes, s, order[i])) |->
                                  RowsOf(memory_changes, s, order[i])[k].change]]]

\* C23: whatever the order in which the frame sets were ingested, the training records
\* of a session come in strictly ascending frame_set_id order, one for every frame set
\* that has an annotation row and a frame-set row.
C23_SamplesInFrameSetOrder ==
    \A s \in SessionUuids :
       LET records == get_training_data(s)
       IN /\ \A i, j \in 1..Len(records) : i < j => records[i].frame_set_id < records[j].frame_set_id
          /\ {records[i].frame_set_id : i \in 1..Len(records)}
                = {f \in FrameSetIds : RowsOf(annotations, s, f) # <<>> /\ RowsOf(frame_sets, s, f) # <<>>}

\* frame set 2 was annotated and ingested before frame set 1, and both are emitted
C23_Witness ==
    /\ Len(annotations) = 2
    /\ annotations[1].frame_set_id = 2
    /\ Len(frame_sets) = 2
    /\ frame_sets[1].frame_set_id = 2
    /\ Len(get_training_data("s1")) = 2
    /\ get_training_data("s1")[1].frame_set_id = 1

\* return train_dirs, test_dirs: what the caller of create_temporal_split receives
SplitReturnValue == <<split_train, split_test>>

\* C24 (as stated): the value create_temporal_split returns has, beside the train and
\* the test partition, a third component, the min_gap of the returning call.
C24_EffectiveGapReturned ==
    split_pc = "done" =>
       /\ Len(SplitReturnValue) = 3
       /\ SplitReturnValue[3] = split_min_gap

(***************************************************************************)
(* K.  Aggregation passes interleaved with the annotation collaborator     *)
(*     (web_app/routes/annotate.py), which writes annotations.json into    *)
(*     the frame-set directories the aggregator creates                    *)
(***************************************************************************)
NoFile == <<>>
AnnotationTexts == {"battle", "menu"}

\* the CSV files of these passes: at most one row, no header line
AnnotLogs == SeqsUpTo(DataRows, 1)

\* shutil.rmtree(dpath) takes the directory's annotations.json with it
RmtreeAnnotations(files, dirs, valid) ==
    [d \in DirIds |-> IF dirs[d] # NoDir /\ d \notin valid THEN NoFile ELSE files[d]]

AnnotIdle ==
    /\ ann_files = [d \in DirIds |-> NoFile]
    /\ ann_written = [d \in DirIds |-> NoFile]

\* one complete run of combine_event_data.py, with its effect on the annotation files:
\* os.makedirs(exist_ok=True) and the write of event.json leave them, the stale cleanup
\* removes the whole directory
aggregate_annotated(log, cleanup) ==
    /\ aggregate(log, cleanup)
    /\ ann_files' = RmtreeAnnotations(ann_files, WriteFrameSets(agg_dirs, log), valid_frame_set_ids(log))
    /\ UNCHANGED ann_written

\* POST /api/annotate/<session_id> for one frame id: json.dump(annotation) into
\* <frame_dir>/annotations.json if the directory exists, else the frame is reported failed
api_annotate(d, annotation) ==
    /\ agg_dirs[d] # NoDir
    /\ ann_files' = [ann_files EXCEPT ![d] = <<annotation>>]
    /\ ann_written' = [ann_written EXCEPT ![d] = <<annotation>>]
    /\ UNCHANGED aggVars

\* C25 (as stated): whatever passes and annotation writes have happened, every
\* annotations.json the collaborator has written is in its directory, with the content
\* the collaborator gave it last.
C25_AnnotationsSurvivePasses ==
    \A d \in DirIds : ann_written[d] # NoFile => ann_files[d] = ann_written[d]

\* C26: downsample_sequences keeps exactly those members of a run of identical labels
\* whose 1-based position p in the run satisfies p <= max_consecutive or p mod 3 = 0,
\* in their original order; so the first member of every run is kept, and with
\* max_consecutive = 5 a run of 12 keeps the 8 members at positions 1..5, 6, 9, 12.
C26_KeptPositionsOfRun ==
    ds_pc = "done" =>
        LET valid_dirs == ValidDirs(ds_labels)
            contexts == SelectSeq(ds_labels, LAMBDA l : l # NoLabel)
            dirs == Range(ds_dirs)
        IN /\ \A i, j \in 1..Len(ds_dirs) : i < j => ds_dirs[i] < ds_dirs[j]
           /\ dirs \subseteq Range(valid_dirs)
           /\ \A a \in 1..Len(contexts) : \A b \in a..Len(contexts) :
                 IsRun(contexts, a, b) =>
                    /\ valid_dirs[a] \in dirs
                    /\ \A i \in a..b :
                          valid_dirs[i] \in dirs <=>
                             ((i - a + 1) <= MaxConsecutive \/ (i - a + 1) % 3 = 0)
                    /\ (b - a + 1 = 12 /\ MaxConsecutive = 5) => Retained(valid_dirs, dirs, a, b) = 8

\* a run of 12 identical labels went through and 8 members came out
C26_Witness ==
    /\ ds_pc = "done"
    /\ Len(ds_labels) = 12
    /\ \A i \in 1..12 : ds_labels[i] = "battle"
    /\ ds_dirs = <<1, 2, 3, 4, 5, 6, 9, 12>>

\* the gaps of the successive calls when the outermost call has the default min_gap
DefaultGapChain == {20, 10, 5, 2, 1}

\* C27: for N >= 5 directories with distinct frame numbers and the defaults
\* (test_size=0.2, min_gap=20), create_temporal_split raises nothing, makes at most
\* five nested calls, with min_gap 20, 10, 5, 2, 1, the call with min_gap 1 returns,
\* and on return train holds at least 50% of the N items, test exactly floor(0.2*N)
\* items, and the gap in effect is at least 1.
C27_SplitTerminatesWithinFiveCalls ==
    (split_requested = DefaultMinGap /\ Cardinality(split_frames) >= 5) =>
       /\ split_pc # "raised"
       /\ split_min_gap \in DefaultGapChain
       /\ Len(split_log) <= 4
       /\ (split_pc = "call" /\ split_min_gap = 1) =>
             2 * Cardinality(TrainFrames(split_frames, 1)) >= Cardinality(split_frames)
       /\ split_pc = "done" =>
             /\ 2 * Cardinality(split_train) >= Cardinality(split_frames)
             /\ Cardinality(split_test) = Cardinality(split_frames) \div 5
             /\ split_test \subseteq split_frames
             /\ split_train \subseteq split_frames \ split_test
             /\ split_min_gap >= 1

\* a default call over 11 directories, where every 5th index would give 3 test items,
\* that went through three reductions and returned 2 test items and 6 train items
C27_Witness ==
    /\ split_pc = "done"
    /\ split_requested = DefaultMinGap
    /\ Cardinality(split_frames) = 11
    /\ Len(split_log) = 3
    /\ split_min_gap = 2
    /\ Cardinality(split_test) = 2
    /\ Cardinality(split_train) = 6

ConfidenceLeq(a, b) ==
    \/ a.hundredths < b.hundredths
    \/ a.hundredths = b.hundredths /\ a.ulps <= b.ulps

\* C30 (as stated): the confidence of an analysis is 0.5 or lies in [0.45, 0.9], and a
\* question whose best template scores exactly 1 gets 0.45.
C30_ConfidenceInClaimedRange ==
    nlq_analysis # <<>> =>
       LET c == nlq_analysis[1].confidence
       IN /\ \/ c = Confidence(50, 0)
             \/ ConfidenceLeq(Confidence(45, 0), c) /\ ConfidenceLeq(c, Confidence(90, 0))
          /\ TopScore(nlq_query) = 1 => c = Confidence(45, 0)

\* C30 (amended): the confidence of an analysis is 0.5 or lies between the double
\* 0.3 + 0.15 = 0.44999999999999996 and 0.9; a question that matches nothing gets 0.5
\* and a question whose best template scores exactly 1 gets 0.44999999999999996,
\* which is lower.
C30_ConfidenceRange ==
    nlq_analysis # <<>> =>
       LET c == nlq_analysis[1].confidence
       IN /\ \/ c = Confidence(50, 0)
             \/ ConfidenceLeq(Confidence(45, -1), c) /\ ConfidenceLeq(c, Confidence(90, 0))
          /\ TopScore(nlq_query) = 0 => c = Confidence(50, 0)
          /\ TopScore(nlq_query) = 1 =>
                /\ c = Confidence(45, -1)
                /\ ConfidenceLeq(c, Confidence(50, 0)) /\ c # Confidence(50, 0)

\* a question whose best template scores exactly 1 was parsed
C30_Witness ==
    /\ nlq_analysis # <<>>
    /\ TopScore(nlq_query) = 1
    /\ nlq_analysis[1].confidence = Confidence(45, -1)

(***************************************************************************)
(* Specifications                                                          *)
(***************************************************************************)
notIngest == <<splitVars, downVars, sampleVars, aggVars, normVars, nlqVars, procVars, loadVars, annotVars>>
notSplit == <<ingestVars, downVars, sampleVars, aggVars, normVars, nlqVars, procVars, loadVars, annotVars>>
notDown == <<ingestVars, splitVars, sampleVars, aggVars, normVars, nlqVars, procVars, loadVars, annotVars>>
notSample == <<ingestVars, splitVars, downVars, aggVars, normVars, nlqVars, procVars, loadVars, annotVars>>
notAgg == <<ingestVars, splitVars, downVars, sampleVars, normVars, nlqVars, procVars, loadVars, annotVars>>
notNorm == <<ingestVars, splitVars, downVars, sampleVars, aggVars, nlqVars, procVars, loadVars, annotVars>>
notNlq == <<ingestVars, splitVars, downVars, sampleVars, aggVars, normVars, procVars, loadVars, annotVars>>

InitIngest == IngestIdle /\ SplitIdle /\ DownIdle /\ SampleIdle /\ AggIdle /\ NormIdle /\ NlqIdle /\ ProcIdle /\ LoadIdle /\ AnnotIdle
NextIngest ==
    \/ \E s \in SessionUuids : insert_session(s) /\ UNCHANGED notIngest
    \/ \E s \in SessionUuids, ev \in EventDatas : insert_frame_set(s, ev) /\ UNCHANGED notIngest
    \/ \E s \in SessionUuids, f \in FrameSetIds, changes \in MemoryChangeLists :
          insert_memory_changes(s, f, changes) /\ UNCHANGED notIngest
    \/ \E s \in SessionUuids, f \in FrameSetIds, ann \in AnnotationDatas :
          insert_annotation(s, f, ann) /\ UNCHANGED notIngest
SpecIngest == InitIngest /\ [][NextIngest]_vars

InitSplit == SplitInit /\ IngestIdle /\ DownIdle /\ SampleIdle /\ AggIdle /\ NormIdle /\ NlqIdle /\ ProcIdle /\ LoadIdle /\ AnnotIdle
NextSplit ==
    \/ SplitRaise /\ UNCHANGED notSplit
    \/ SplitReduce /\ UNCHANGED notSplit
    \/ SplitReturn /\ UNCHANGED notSplit
SpecSplit == InitSplit /\ [][NextSplit]_vars

InitDown == DownInit /\ IngestIdle /\ SplitIdle /\ SampleIdle /\ AggIdle /\ NormIdle /\ NlqIdle /\ ProcIdle /\ LoadIdle /\ AnnotIdle
NextDown ==
    \/ downsample_sequences /\ UNCHANGED notDown
SpecDown == InitDown /\ [][NextDown]_vars

InitSample == (WinInit \/ BundleInit) /\ IngestIdle /\ SplitIdle /\ DownIdle /\ AggIdle /\ NormIdle /\ NlqIdle /\ ProcIdle /\ LoadIdle /\ AnnotIdle
NextSample ==
    \/ generate_windowed_samples /\ UNCHANGED notSample
    \/ create_training_dataset /\ UNCHANGED notSample
SpecSample == InitSample /\ [][NextSample]_vars

InitAgg == AggInit /\ IngestIdle /\ SplitIdle /\ DownIdle /\ SampleIdle /\ NormIdle /\ NlqIdle /\ ProcIdle /\ LoadIdle /\ AnnotIdle
NextAgg ==
    \/ \E log \in Logs : aggregate_raises(log) /\ UNCHANGED notAgg
    \/ \E log \in Logs, cleanup \in BOOLEAN : aggregate(log, cleanup) /\ UNCHANGED notAgg
SpecAgg == InitAgg /\ [][NextAgg]_vars

InitNorm == NormInit /\ IngestIdle /\ SplitIdle /\ DownIdle /\ SampleIdle /\ AggIdle /\ NlqIdle /\ ProcIdle /\ LoadIdle /\ AnnotIdle
NextNorm ==
    \/ normalize_frequencies /\ UNCHANGED notNorm
SpecNorm == InitNorm /\ [][NextNorm]_vars

InitNlq == NlqInit /\ IngestIdle /\ SplitIdle /\ DownIdle /\ SampleIdle /\ AggIdle /\ NormIdle /\ ProcIdle /\ LoadIdle /\ AnnotIdle
NextNlq ==
    \/ parse_natural_language_query /\ UNCHANGED notNlq
    \/ \E slow \in BOOLEAN : process_natural_language_query(slow) /\ UNCHANGED notNlq
SpecNlq == InitNlq /\ [][NextNlq]_vars

notProcess == <<splitVars, downVars, sampleVars, aggVars, normVars, nlqVars, loadVars, annotVars>>
InitProcess == ProcInit /\ SplitIdle /\ DownIdle /\ SampleIdle /\ AggIdle /\ NormIdle /\ NlqIdle /\ LoadIdle /\ AnnotIdle
NextProcess ==
    \/ process_insert_session /\ UNCHANGED notProcess
    \/ process_skip /\ UNCHANGED notProcess
    \/ process_insert_frame_set /\ UNCHANGED notProcess
    \/ process_delete_memory_changes /\ UNCHANGED notProcess
    \/ process_insert_memory_change /\ UNCHANGED notProcess
    \/ process_commit_memory_changes /\ UNCHANGED notProcess
    \/ process_insert_annotation /\ UNCHANGED notProcess
    \/ process_insert_annotation_raises /\ UNCHANGED notProcess
    \/ process_return /\ UNCHANGED notProcess
    \/ process_stops /\ UNCHANGED notProcess
SpecProcess == InitProcess /\ [][NextProcess]_vars

notLoad == <<ingestVars, splitVars, downVars, sampleVars, aggVars, normVars, nlqVars, procVars, annotVars>>
InitLoad == LoadInit /\ IngestIdle /\ SplitIdle /\ DownIdle /\ SampleIdle /\ AggIdle /\ NormIdle /\ NlqIdle /\ ProcIdle /\ AnnotIdle
NextLoad ==
    \/ \E name \in SessionNames : load_data_from_directory(name) /\ UNCHANGED notLoad
SpecLoad == InitLoad /\ [][NextLoad]_vars

notAnnot == <<ingestVars, splitVars, downVars, sampleVars, normVars, nlqVars, procVars, loadVars>>
InitAnnot == AggInit /\ AnnotIdle /\ IngestIdle /\ SplitIdle /\ DownIdle /\ SampleIdle /\ NormIdle /\ NlqIdle /\ ProcIdle /\ LoadIdle
NextAnnot ==
    \/ \E log \in AnnotLogs, cleanup \in BOOLEAN : aggregate_annotated(log, cleanup) /\ UNCHANGED notAnnot
    \/ \E d \in DirIds, annotation \in AnnotationTexts : api_annotate(d, annotation) /\ UNCHANGED notAnnot
SpecAnnot == InitAnnot /\ [][NextAnnot]_vars

=============================================================================
